---- MODULE Spec2Model ----
(***************************************************************************)
(* A state-machine model of the YIN parser of libyang (src/parser_yin.c).  *)
(*                                                                         *)
(* The XML lexer is the environment: at every step it hands the parser the *)
(* next element (namespace class, local name, attribute list and content   *)
(* shape) or the closing tag of the element being parsed.  The parser's    *)
(* call stack of yin_parse_content() invocations is the variable `stack`;  *)
(* the parsed tree is the variable `nodes` (one record per allocated       *)
(* structure, fields named as in the C structures).                        *)
(*                                                                         *)
(* Strings are sequences of one-character strings, so that the lexical     *)
(* validators work on characters as the code does.                         *)
(*                                                                         *)
(* The memory allocator is the environment too: `allocator` says which     *)
(* allocation of yin_parse_module() returns NULL, if any, and whether      *)
(* realloc() moves an array it grows.  `leaked` is what the parse had      *)
(* allocated and not freed when yin_parse_module() returned an error.      *)
(***************************************************************************)
EXTENDS Integers, Sequences, FiniteSets, TLC

VARIABLES pc, ret, log, stack, nodes, lmod, mod_version, tok, consumed, alphabet,
          allocator, leaked

vars ==
    <<pc, ret, log, stack, nodes, lmod, mod_version, tok, consumed, alphabet, allocator,
      leaked>>

(***************************************************************************)
(* Bounds of the model.                                                    *)
(***************************************************************************)
\* number of elements the lexer delivers in one document
MaxElems == 7
\* length of the strings given to the lexical validator on its own
MaxStrLen == 3

(***************************************************************************)
(* Values.                                                                 *)
(***************************************************************************)
NULL == <<"<null>">>

LY_SUCCESS == "LY_SUCCESS"
LY_EVALID == "LY_EVALID"
LY_EINVAL == "LY_EINVAL"
LY_EINT == "LY_EINT"
\* the process is ended by abort() when an assert() fails
SIGABRT == "SIGABRT"

\* the run has come to a handler that is not part of the model
NotModelled == "not modelled"

LY_EMEM == "LY_EMEM"

LYS_VERSION_UNDEF == 0
LYS_VERSION_1_0 == 1
LYS_VERSION_1_1 == 2

LYS_DEV_NOT_SUPPORTED == 1
LYS_DEV_ADD == 2
LYS_DEV_DELETE == 3
LYS_DEV_REPLACE == 4

YANG_NONE == "NONE"
YANG_CUSTOM == "CUSTOM"
YIN_TEXT == "YIN_TEXT"
YIN_VALUE == "YIN_VALUE"

YIN_ARG_UNKNOWN == "YIN_ARG_UNKNOWN"
YIN_ARG_NONE == "YIN_ARG_NONE"

\* yin_attr_list: the attribute names that carry an argument
yin_attr_list ==
    {"name", "target-node", "module", "value", "text", "condition", "uri", "date", "tag"}

Entry(code, arg) == [code |-> code, arg |-> arg]

(***************************************************************************)
(* Characters.  A character is a one-character string; "BAD" stands for a  *)
(* byte sequence that is no UTF-8 character, "CTRL" for a control          *)
(* character that XML does not allow, "E2" for a two-byte character.       *)
(***************************************************************************)
Letters ==
    {"a", "b", "c", "d", "e", "f", "g", "h", "i", "j", "k", "l", "m",
     "n", "o", "p", "q", "r", "s", "t", "u", "v", "w", "x", "y", "z"}
Digits == {"0", "1", "2", "3", "4", "5", "6", "7", "8", "9"}

utf8_char_len(c) == IF c = "E2" THEN 2 ELSE 1

RECURSIVE strlen(_)
strlen(s) == IF s = <<>> THEN 0 ELSE utf8_char_len(Head(s)) + strlen(Tail(s))

\* ly_getutf8: fails on a byte sequence that is no UTF-8 character
ly_getutf8(c) == IF c = "BAD" THEN LY_EINVAL ELSE LY_SUCCESS

is_yangidentstartchar(c) == c \in Letters \cup {"_"}
is_yangidentchar(c) == c \in Letters \cup Digits \cup {"_", "-", "."}

\* lysp_check_identifierchar: prefix is -1 when the caller passes no prefix pointer
lysp_check_identifierchar(c, first, prefix) ==
    IF first \/ prefix = 1
    THEN IF ~is_yangidentstartchar(c)
         THEN [ret |-> LY_EVALID, prefix |-> prefix]
         ELSE [ret |-> LY_SUCCESS,
               prefix |-> IF prefix = -1 THEN -1 ELSE IF first THEN 0 ELSE 2]
    ELSE IF c = ":" /\ prefix = 0
    THEN [ret |-> LY_SUCCESS, prefix |-> 1]
    ELSE IF ~is_yangidentchar(c)
    THEN [ret |-> LY_EVALID, prefix |-> prefix]
    ELSE [ret |-> LY_SUCCESS, prefix |-> prefix]

lysp_check_stringchar(c) == IF c = "CTRL" THEN LY_EVALID ELSE LY_SUCCESS

\* the `first` argument yin_validate_value passes: !already_read, read after
\* already_read has been advanced over the character
first_argument(already_read) == (already_read = 0)

RECURSIVE validate_loop(_, _, _, _, _)
validate_loop(val_type, val, len, already_read, prefix) ==
    IF ~(already_read < len) \/ val = <<>>
    THEN [ret |-> LY_SUCCESS, code |-> ""]
    ELSE LET c == Head(val)
             read == already_read + utf8_char_len(c)
         IN  IF ly_getutf8(c) # LY_SUCCESS
             THEN [ret |-> LY_EVALID, code |-> "LY_VCODE_INCHAR"]
             ELSE IF read > len
             THEN [ret |-> LY_EINT, code |-> "LOGINT"]
             ELSE IF val_type = "Y_IDENTIF_ARG"
             THEN LET r == lysp_check_identifierchar(c, first_argument(read), -1)
                  IN  IF r.ret # LY_SUCCESS
                      THEN [ret |-> r.ret, code |-> "LYVE_SYNTAX_YANG_IDENT"]
                      ELSE validate_loop(val_type, Tail(val), len, read, prefix)
             ELSE IF val_type = "Y_PREF_IDENTIF_ARG"
             THEN LET r == lysp_check_identifierchar(c, first_argument(read), prefix)
                  IN  IF r.ret # LY_SUCCESS
                      THEN [ret |-> r.ret, code |-> "LYVE_SYNTAX_YANG_IDENT"]
                      ELSE validate_loop(val_type, Tail(val), len, read, r.prefix)
             ELSE IF lysp_check_stringchar(c) # LY_SUCCESS
             THEN [ret |-> LY_EVALID, code |-> "LY_VCODE_INCHAR"]
             ELSE validate_loop(val_type, Tail(val), len, read, prefix)

yin_validate_value(val_type, val) == validate_loop(val_type, val, strlen(val), 0, 0)

(***************************************************************************)
(* The argument binder.                                                    *)
(***************************************************************************)
\* an attribute record: prefix ("" when there is none), name, content
Attr(prefix, name, content) == [prefix |-> prefix, name |-> name, content |-> content]

yin_match_argument_name(name) ==
    IF name = "" THEN YIN_ARG_NONE
    ELSE IF name \in yin_attr_list THEN name
    ELSE YIN_ARG_UNKNOWN

RECURSIVE attribute_loop(_, _, _, _, _, _, _)
attribute_loop(attrs, i, arg_type, val_type, current_element, found, val) ==
    IF i > Len(attrs)
    THEN IF val_type # "Y_MAYBE_STR_ARG" /\ ~found
         THEN [ret |-> LY_EVALID, val |-> val,
               log |-> <<Entry("LYVE_SYNTAX_YIN_MISSING_ATTR", current_element)>>]
         ELSE [ret |-> LY_SUCCESS, val |-> val, log |-> <<>>]
    ELSE LET iter == attrs[i]
             arg == yin_match_argument_name(iter.name)
         IN  IF iter.prefix # "" \/ arg = YIN_ARG_NONE
             THEN attribute_loop(attrs, i + 1, arg_type, val_type, current_element, found, val)
             ELSE IF arg = arg_type
             THEN IF found
                  THEN [ret |-> LY_EVALID, val |-> val,
                        log |-> <<Entry("LY_VCODE_DUP_ATTR", current_element)>>]
                  ELSE LET Validated(v) ==
                               IF v.ret # LY_SUCCESS
                               THEN [ret |-> v.ret, val |-> val,
                                     log |-> <<Entry(v.code, current_element)>>]
                               ELSE attribute_loop(attrs, i + 1, arg_type, val_type,
                                                   current_element, TRUE, iter.content)
                       IN  Validated(yin_validate_value(val_type, iter.content))
             ELSE [ret |-> LY_EVALID, val |-> val,
                   log |-> <<Entry("LY_VCODE_UNEXP_ATTR", current_element)>>]

\* yin_parse_attribute: the value bound (val stays as given when none is), the
\* result and what was logged
attribute_with_prefixed(attrs, arg_type, val, val_type, current_element) ==
    attribute_loop([i \in 1..Len(attrs) |-> [attrs[i] EXCEPT !.prefix = ""]], 1,
                   arg_type, val_type, current_element, FALSE, val)

yin_parse_attribute(attrs, arg_type, val, val_type, current_element) ==
    attribute_loop(attrs, 1, arg_type, val_type, current_element, FALSE, val)

(***************************************************************************)
(* Keywords.  A keyword is named by its YANG statement name; the order of  *)
(* enum yang_keyword is the order of this sequence.                        *)
(***************************************************************************)
yang_keyword ==
    <<"NONE", "action", "anydata", "anyxml", "argument", "augment", "base",
      "belongs-to", "bit", "case", "choice", "config", "contact", "container",
      "default", "description", "deviate", "deviation", "enum", "error-app-tag",
      "error-message", "extension", "feature", "fraction-digits", "grouping",
      "identity", "if-feature", "import", "include", "input", "key", "leaf",
      "leaf-list", "length", "list", "mandatory", "max-elements", "min-elements",
      "modifier", "module", "must", "namespace", "notification", "ordered-by",
      "organization", "output", "path", "pattern", "position", "prefix",
      "presence", "range", "reference", "refine", "require-instance", "revision",
      "revision-date", "rpc", "status", "submodule", "type", "typedef", "unique",
      "units", "uses", "value", "when", "yang-version", "yin-element",
      ";", "{", "}", "CUSTOM", "YIN_TEXT", "YIN_VALUE">>

\* the integer value of a keyword of enum yang_keyword
kw_value(kw) == (CHOOSE i \in 1..Len(yang_keyword) : yang_keyword[i] = kw) - 1

\* the YANG statement names lysp_match_kw() recognises
StatementNames == {yang_keyword[i] : i \in 2..69}

\* the local names the lexer delivers that are no statement name, with their
\* length and the number of characters lysp_match_kw() reads of them
OtherNames == {"text", "foo", "t", "te", "tex", "textx", "prefi", "prefixx"}
name_length(name) ==
    CASE name = "t" -> 1
      [] name = "te" -> 2
      [] name \in {"tex", "foo"} -> 3
      [] name = "text" -> 4
      [] name \in {"textx", "prefi"} -> 5
      [] OTHER -> 7
lysp_match_kw(name) ==
    IF name \in StatementNames
    THEN [kw |-> name, read |-> -1]
    ELSE IF name = "prefixx"
    THEN [kw |-> "prefix", read |-> 6]
    ELSE [kw |-> YANG_NONE, read |-> 1]

\* strncmp(start, "text", name_len) == 0: the name_len characters of the name
\* are the first characters of "text"; a longer name differs from the string
\* at its terminating zero
strncmp_text(name) == name \in {"t", "te", "tex", "text"}

\* ns is the class of the namespace bound to the element's prefix:
\* "yin" (the YIN namespace), "other" (any other URI), "none" (no binding)
yin_match_keyword(name, ns, parrent) ==
    IF ns = "none" THEN YANG_NONE
    ELSE IF ns # "yin" THEN YANG_CUSTOM
    ELSE LET m == lysp_match_kw(name)
         IN  IF m.read = -1 \/ m.read = name_length(name)
             THEN IF m.kw = "value" /\ parrent = "error-message"
                  THEN YIN_VALUE
                  ELSE m.kw
             ELSE IF strncmp_text(name) THEN YIN_TEXT ELSE YANG_NONE

(***************************************************************************)
(* Child tables.                                                           *)
(***************************************************************************)
YIN_SUBELEM_MANDATORY == "YIN_SUBELEM_MANDATORY"
YIN_SUBELEM_UNIQUE == "YIN_SUBELEM_UNIQUE"
YIN_SUBELEM_FIRST == "YIN_SUBELEM_FIRST"
YIN_SUBELEM_VER2 == "YIN_SUBELEM_VER2"
YIN_SUBELEM_PARSED == "YIN_SUBELEM_PARSED"

\* struct yin_subelement: dest names the field of the node the child writes
Sub(type, dest, flags) == [type |-> type, dest |-> dest, flags |-> flags]

U == {YIN_SUBELEM_UNIQUE}
MU == {YIN_SUBELEM_MANDATORY, YIN_SUBELEM_UNIQUE}
MUF == {YIN_SUBELEM_MANDATORY, YIN_SUBELEM_UNIQUE, YIN_SUBELEM_FIRST}
V2 == {YIN_SUBELEM_VER2}
UV2 == {YIN_SUBELEM_UNIQUE, YIN_SUBELEM_VER2}

\* the one-entry table of the elements that only take extension instances
subelems_custom == <<Sub("CUSTOM", "", {})>>
\* the table of yin_parse_simple_elements(): dest is the variable index
subelems_index(index) ==
    <<[type |-> "CUSTOM", dest |-> "index", flags |-> {}, index |-> index]>>

subelems_mod ==
    <<Sub("anydata", "data", V2), Sub("anyxml", "data", {}),
      Sub("augment", "augments", {}), Sub("choice", "data", {}),
      Sub("contact", "mod->contact", U), Sub("container", "data", {}),
      Sub("description", "mod->dsc", U), Sub("deviation", "deviations", {}),
      Sub("extension", "extensions", {}), Sub("feature", "features", {}),
      Sub("grouping", "groupings", {}), Sub("identity", "identities", {}),
      Sub("import", "imports", {}), Sub("include", "includes", {}),
      Sub("leaf", "data", {}), Sub("leaf-list", "data", {}),
      Sub("list", "data", {}), Sub("namespace", "mod->ns", MU),
      Sub("notification", "notifs", {}), Sub("organization", "mod->org", U),
      Sub("prefix", "mod->prefix", MU), Sub("reference", "mod->ref", U),
      Sub("revision", "revs", {}), Sub("rpc", "rpcs", {}),
      Sub("typedef", "typedefs", {}), Sub("uses", "data", {}),
      Sub("yang-version", "mod->version", MU), Sub("CUSTOM", "", {})>>

\* value is the field the text child writes
subelems_meta(value) == <<Sub("CUSTOM", "", {}), Sub("YIN_TEXT", value, MUF)>>

subelems_import ==
    <<Sub("description", "dsc", U), Sub("prefix", "prefix", MU),
      Sub("reference", "ref", U), Sub("revision-date", "rev", U),
      Sub("CUSTOM", "", {})>>

subelems_container ==
    <<Sub("action", "actions", V2), Sub("anydata", "child", V2),
      Sub("anyxml", "child", {}), Sub("choice", "child", {}),
      Sub("config", "flags", U), Sub("container", "child", {}),
      Sub("description", "dsc", U), Sub("grouping", "groupings", {}),
      Sub("if-feature", "iffeatures", {}), Sub("leaf", "child", {}),
      Sub("leaf-list", "child", {}), Sub("list", "child", {}),
      Sub("must", "musts", {}), Sub("notification", "notifs", V2),
      Sub("presence", "presence", U), Sub("reference", "ref", U),
      Sub("status", "flags", U), Sub("typedef", "typedefs", {}),
      Sub("uses", "child", {}), Sub("when", "when", U),
      Sub("CUSTOM", "", {})>>

subelems_grouping ==
    <<Sub("action", "actions", {}), Sub("anydata", "data", {}),
      Sub("anyxml", "data", {}), Sub("choice", "data", {}),
      Sub("container", "data", {}), Sub("description", "dsc", U),
      Sub("grouping", "groupings", {}), Sub("leaf", "data", {}),
      Sub("leaf-list", "data", {}), Sub("list", "data", {}),
      Sub("notification", "notifs", {}), Sub("reference", "ref", U),
      Sub("status", "flags", U), Sub("typedef", "typedefs", {}),
      Sub("uses", "data", {}), Sub("CUSTOM", "", {})>>

subelems_any ==
    <<Sub("config", "flags", U), Sub("description", "dsc", U),
      Sub("if-feature", "iffeatures", {}), Sub("mandatory", "flags", U),
      Sub("must", "musts", {}), Sub("reference", "ref", U),
      Sub("status", "flags", U), Sub("when", "when", U),
      Sub("CUSTOM", "", {})>>

subelems_leaf ==
    <<Sub("config", "flags", U), Sub("default", "dflt", U),
      Sub("description", "dsc", U), Sub("if-feature", "iffeatures", {}),
      Sub("mandatory", "flags", U), Sub("must", "musts", {}),
      Sub("reference", "ref", U), Sub("status", "flags", U),
      Sub("type", "type", MU), Sub("units", "units", U),
      Sub("when", "when", U), Sub("CUSTOM", "", {})>>

subelems_leaflist ==
    <<Sub("config", "flags", U), Sub("default", "dflts", {}),
      Sub("description", "dsc", U), Sub("if-feature", "iffeatures", {}),
      Sub("max-elements", "", U), Sub("min-elements", "", U),
      Sub("must", "musts", {}), Sub("ordered-by", "flags", U),
      Sub("reference", "ref", U), Sub("status", "flags", U),
      Sub("type", "type", MU), Sub("units", "units", U),
      Sub("when", "when", U), Sub("CUSTOM", "", {})>>

subelems_type ==
    <<Sub("base", "", {}), Sub("bit", "", {}), Sub("enum", "", {}),
      Sub("fraction-digits", "", U), Sub("length", "", U),
      Sub("path", "", U), Sub("pattern", "", {}), Sub("range", "", U),
      Sub("require-instance", "", U), Sub("type", "", {}),
      Sub("CUSTOM", "", {})>>

subelems_enum ==
    <<Sub("description", "dsc", U), Sub("if-feature", "iffeatures", {}),
      Sub("reference", "ref", U), Sub("status", "flags", U),
      Sub("value", "", U), Sub("CUSTOM", "", {})>>

subelems_bit ==
    <<Sub("description", "dsc", U), Sub("if-feature", "iffeatures", {}),
      Sub("position", "", U), Sub("reference", "ref", U),
      Sub("status", "flags", U), Sub("CUSTOM", "", {})>>

subelems_list ==
    <<Sub("action", "actions", {}), Sub("anydata", "child", {}),
      Sub("anyxml", "child", {}), Sub("choice", "child", {}),
      Sub("config", "flags", U), Sub("container", "child", {}),
      Sub("description", "dsc", U), Sub("grouping", "groupings", {}),
      Sub("if-feature", "iffeatures", {}), Sub("key", "key", U),
      Sub("leaf", "child", {}), Sub("leaf-list", "child", {}),
      Sub("list", "child", {}), Sub("max-elements", "", U),
      Sub("min-elements", "", U), Sub("must", "musts", {}),
      Sub("notification", "notifs", {}), Sub("ordered-by", "flags", U),
      Sub("reference", "ref", U), Sub("status", "flags", U),
      Sub("typedef", "typedefs", {}), Sub("unique", "uniques", {}),
      Sub("uses", "child", {}), Sub("when", "when", U),
      Sub("CUSTOM", "", {})>>

subelems_pattern ==
    <<Sub("description", "dsc", U), Sub("error-app-tag", "eapptag", U),
      Sub("error-message", "emsg", U), Sub("modifier", "arg", U),
      Sub("reference", "ref", U), Sub("CUSTOM", "", {})>>

subelems_deviation ==
    <<Sub("description", "dsc", U), Sub("deviate", "deviates", {YIN_SUBELEM_MANDATORY}),
      Sub("reference", "ref", U), Sub("CUSTOM", "", {})>>

\* the child tables of the four shapes of deviate
subelems_deviate(dev_mod) ==
    CASE dev_mod = LYS_DEV_NOT_SUPPORTED -> <<Sub("CUSTOM", "", {})>>
      [] dev_mod = LYS_DEV_ADD ->
           <<Sub("config", "flags", U), Sub("default", "dflts", {}),
             Sub("mandatory", "flags", U), Sub("max-elements", "", U),
             Sub("min-elements", "", U), Sub("must", "musts", {}),
             Sub("unique", "uniques", {}), Sub("units", "units", U),
             Sub("CUSTOM", "", {})>>
      [] dev_mod = LYS_DEV_REPLACE ->
           <<Sub("config", "flags", U), Sub("default", "dflt", U),
             Sub("mandatory", "flags", U), Sub("max-elements", "", U),
             Sub("min-elements", "", U), Sub("type", "type", U),
             Sub("units", "units", U), Sub("CUSTOM", "", {})>>
      [] OTHER ->
           <<Sub("default", "dflts", {}), Sub("must", "musts", {}),
             Sub("unique", "uniques", {}), Sub("units", "units", U),
             Sub("CUSTOM", "", {})>>

subelems_restr ==
    <<Sub("description", "dsc", U), Sub("error-app-tag", "eapptag", U),
      Sub("error-message", "emsg", U), Sub("reference", "ref", U),
      Sub("CUSTOM", "", {})>>

subelems_when ==
    <<Sub("description", "dsc", U), Sub("reference", "ref", U),
      Sub("CUSTOM", "", {})>>

(***************************************************************************)
(* The parsed tree.  nodes[id] is one allocated structure, a function from *)
(* the names of its fields; a pointer is a node id, 0 the null pointer; a  *)
(* sized array or sibling list is the sequence of the ids of its items.    *)
(* lmod is the caller's struct lys_module (the fields mod->...).           *)
(***************************************************************************)
SeqFields ==
    {"imports", "includes", "revs", "extensions", "features", "identities",
     "typedefs", "groupings", "data", "child", "augments", "rpcs", "actions",
     "notifs", "deviations", "exts", "iffeatures", "musts", "dflts", "uniques",
     "enums", "bits", "types", "patterns", "bases", "deviates"}
IntFields ==
    {"parent", "when", "type", "range", "length", "min", "max", "value",
     "fraction_digits", "require_instance", "version", "mod->version", "mod->parsed",
     "mod", "insubstmt_index"}

Default(f) ==
    IF f \in SeqFields THEN <<>>
    ELSE IF f = "flags" THEN {}
    ELSE IF f \in IntFields THEN 0
    ELSE NULL

\* the fields of the structure a statement allocates
FieldsOf(kw) ==
    CASE kw = "module" ->
           {"imports", "includes", "revs", "extensions", "features", "identities",
            "typedefs", "groupings", "data", "augments", "rpcs", "notifs",
            "deviations", "exts"}
      [] kw = "submodule" ->
           {"belongsto", "name", "prefix", "org", "contact", "dsc", "ref", "version",
            "imports", "includes", "revs", "extensions", "features", "identities",
            "typedefs", "groupings", "data", "augments", "rpcs", "notifs",
            "deviations", "exts"}
      [] kw = "import" -> {"name", "prefix", "dsc", "ref", "rev", "exts"}
      [] kw = "include" -> {"name", "dsc", "ref", "rev", "exts"}
      [] kw = "revision" -> {"date", "dsc", "ref", "exts"}
      [] kw = "container" ->
           {"name", "flags", "dsc", "ref", "when", "iffeatures", "musts", "presence",
            "typedefs", "groupings", "child", "actions", "notifs", "exts"}
      [] kw = "list" ->
           {"name", "flags", "dsc", "ref", "when", "iffeatures", "musts", "key",
            "typedefs", "groupings", "child", "actions", "notifs", "uniques", "min",
            "max", "exts"}
      [] kw = "grouping" ->
           {"name", "flags", "dsc", "ref", "typedefs", "groupings", "data", "actions",
            "notifs", "exts"}
      [] kw = "notification" ->
           {"name", "flags", "dsc", "ref", "iffeatures", "musts", "typedefs",
            "groupings", "data", "exts"}
      [] kw \in {"anydata", "anyxml"} ->
           {"name", "flags", "dsc", "ref", "when", "iffeatures", "musts", "exts"}
      [] kw = "leaf" ->
           {"name", "flags", "dsc", "ref", "when", "iffeatures", "musts", "type",
            "units", "dflt", "exts"}
      [] kw = "leaf-list" ->
           {"name", "flags", "dsc", "ref", "when", "iffeatures", "musts", "type",
            "units", "dflts", "min", "max", "exts"}
      [] kw = "type" ->
           {"name", "flags", "range", "length", "patterns", "enums", "bits", "path",
            "bases", "types", "fraction_digits", "require_instance", "exts"}
      [] kw \in {"enum", "bit"} ->
           {"name", "dsc", "ref", "value", "iffeatures", "flags", "exts"}
      [] kw = "when" -> {"cond", "dsc", "ref", "exts"}
      [] kw = "restr" -> {"arg", "dsc", "ref", "eapptag", "emsg", "exts"}
      [] kw = "deviation" -> {"nodeid", "dsc", "ref", "deviates", "exts"}
      [] kw = "deviate" ->
           {"mod", "flags", "min", "max", "dflts", "dflt", "musts", "uniques",
            "units", "type", "exts"}
      [] kw \in {"must", "range", "length", "pattern"} ->
           {"arg", "emsg", "eapptag", "dsc", "ref", "exts"}
      [] kw = "CUSTOM" -> {"name", "argument", "child", "insubstmt", "insubstmt_index"}
      [] kw = "stmt" -> {"stmt", "arg", "flags", "child"}
      [] OTHER -> {"exts"}

\* a zeroed structure (calloc) of the statement kw, with its nodetype and parent.
\* addr tells the places the structure has had in memory apart (it grows when
\* the structure is moved); parent_addr is the addr of the parent the pointer
\* `parent` was taken from.
NewNode(kw, parent) ==
    [f \in FieldsOf(kw) \cup {"kw", "parent", "addr", "parent_addr"} |->
        IF f = "kw" THEN kw ELSE IF f = "parent" THEN parent
        ELSE IF f \in {"addr", "parent_addr"} THEN 0 ELSE Default(f)]

LModFields ==
    {"mod->name", "mod->ns", "mod->prefix", "mod->version", "mod->org",
     "mod->contact", "mod->dsc", "mod->ref", "mod->parsed"}

\* the parser's data: the tree, the caller's module and ctx->mod_version
State(n, m, v) == [nodes |-> n, lmod |-> m, mod_version |-> v]

\* the value of the field dest of node id
Get(st, id, dest) == IF dest \in LModFields THEN st.lmod[dest] ELSE st.nodes[id][dest]

\* *dest = val
Set(st, id, dest, val) ==
    IF dest \in LModFields
    THEN [st EXCEPT !.lmod[dest] = val]
    ELSE [st EXCEPT !.nodes[id][dest] = val]

\* the id the next allocation gets
NextId(st) == Len(st.nodes) + 1

\* LY_ARRAY_NEW / LY_LIST_NEW: a zeroed item, linked at the end of the array or
\* sibling list `dest` of node `owner`.  An array is grown by realloc(): when
\* the allocator moves it, the items it held are at another place afterwards;
\* the items of a sibling list are allocated one by one and never move.
new_item_at_head(st, owner, dest, kw, parent) ==
    LET id == NextId(st)
        linked == [st EXCEPT !.nodes = Append(st.nodes, NewNode(kw, parent))]
    IN  Set(linked, owner, dest, <<id>> \o Get(st, owner, dest))

NewItem(st, owner, dest, kw, parent) ==
    LET id == NextId(st)
        sibling_lists == {"data", "child", "deviates"}
        items == Get(st, owner, dest)
        moved == IF allocator.moves /\ dest \notin sibling_lists
                 THEN {items[i] : i \in 1..Len(items)} ELSE {}
        item == [NewNode(kw, parent) EXCEPT
                    !["parent_addr"] = IF parent = 0 THEN 0 ELSE st.nodes[parent]["addr"]]
        grown == [i \in 1..Len(st.nodes) |->
                    IF i \in moved THEN [st.nodes[i] EXCEPT !["addr"] = @ + 1]
                    ELSE st.nodes[i]]
        linked == [st EXCEPT !.nodes = Append(grown, item)]
    IN  Set(linked, owner, dest, Append(items, id))

\* calloc of a structure a pointer field `dest` of node `owner` is set to
NewPointee(st, owner, dest, kw) ==
    LET id == NextId(st)
        made == [st EXCEPT !.nodes = Append(st.nodes, NewNode(kw, owner))]
    IN  Set(made, owner, dest, id)

(***************************************************************************)
(* One invocation of yin_parse_content(): the element being parsed, the    *)
(* node its children write to, its child table with the PARSED flags, the  *)
(* dispatcher's kw variable, the text sink, the node whose exts array      *)
(* extension instances are added to, the keywords of the children read so  *)
(* far, and the import_meta of the table (in the frame of an import: the   *)
(* one the handler was given, owner being the node of the imports array).  *)
(* In the frame of a deviate, owner is the deviation whose list the        *)
(* handler was given and dev_mod the handler's variable of that name.      *)
(***************************************************************************)
Frame(kw, node, subelems, text_content, exts) ==
    [kw |-> kw, node |-> node, subelems |-> subelems, kwv |-> YANG_NONE,
     children |-> <<>>, text_content |-> text_content, exts |-> exts,
     owner |-> 0, meta_prefix |-> NULL, dev_mod |-> 0]

NoFrame == Frame(YANG_NONE, 0, <<>>, "", 0)

\* what the first half of a handler (up to its call of yin_parse_content) gives
R(r, l, st, frame) == [ret |-> r, log |-> l, st |-> st, frame |-> frame]

(***************************************************************************)
(* The checks of the dispatcher.                                           *)
(***************************************************************************)
RECURSIVE get_record_loop(_, _, _, _)
get_record_loop(type, array, left, right) ==
    IF ~(left <= right) THEN 0
    ELSE LET middle == left + ((right - left) \div 2)
         IN  IF array[middle + 1].type = type THEN middle + 1
             ELSE IF kw_value(array[middle + 1].type) < kw_value(type)
             THEN get_record_loop(type, array, middle + 1, right)
             ELSE get_record_loop(type, array, left, middle - 1)

\* the index (from 1) of the entry of the keyword in the table, 0 for NULL
get_record(type, array_size, array) == get_record_loop(type, array, 0, array_size - 1)

is_ordered(subelem_info) ==
    \A i \in 1..Len(subelem_info) :
        /\ kw_value(subelem_info[i].type) > 0
        /\ i > 1 => kw_value(subelem_info[i].type) > kw_value(subelem_info[i - 1].type)

Result(r, l) == [ret |-> r, log |-> l]

\* the mandatory check that never finds a child missing
no_mandatory_constraint(subelem_info, current_element) == Result(LY_SUCCESS, <<>>)

yin_check_subelem_mandatory_constraint(subelem_info, current_element) ==
    LET missing == {i \in 1..Len(subelem_info) :
                       /\ YIN_SUBELEM_MANDATORY \in subelem_info[i].flags
                       /\ YIN_SUBELEM_PARSED \notin subelem_info[i].flags}
    IN  IF missing # {}
        THEN LET i == CHOOSE j \in missing : \A k \in missing : j <= k
             IN  Result(LY_EVALID, <<Entry("LY_VCODE_MAND_SUBELEM", subelem_info[i].type)>>)
        ELSE Result(LY_SUCCESS, <<>>)

\* the first-child check that never finds a child parsed before
no_first_constraint(subelem_info, current_element, exp_first) == Result(LY_SUCCESS, <<>>)

yin_check_subelem_first_constraint(subelem_info, current_element, exp_first) ==
    IF \E i \in 1..Len(subelem_info) : YIN_SUBELEM_PARSED \in subelem_info[i].flags
    THEN Result(LY_EVALID, <<Entry("LY_VCODE_FIRT_SUBELEM", exp_first.type)>>)
    ELSE Result(LY_SUCCESS, <<>>)

\* enum yang_module_stmt, in its order
yang_module_stmt ==
    <<"Y_MOD_MODULE_HEADER", "Y_MOD_LINKAGE", "Y_MOD_META", "Y_MOD_REVISION", "Y_MOD_BODY">>

\* the groups with the extension instance in the group of the header
kw2kw_group_custom_header(kw) ==
    CASE kw \in {"NONE", "namespace", "prefix", "belongs-to", "yang-version", "CUSTOM"} ->
           "Y_MOD_MODULE_HEADER"
      [] kw \in {"include", "import"} -> "Y_MOD_LINKAGE"
      [] kw \in {"organization", "contact", "description", "reference"} -> "Y_MOD_META"
      [] kw = "revision" -> "Y_MOD_REVISION"
      [] kw \in {"anydata", "anyxml", "augment", "choice", "container", "deviation",
                 "extension", "feature", "grouping", "identity", "leaf", "leaf-list",
                 "list", "notification", "rpc", "typedef", "uses"} ->
           "Y_MOD_BODY"
      [] OTHER -> ""

\* the group of a keyword, "" when the switch falls to its default (LY_EINT)
kw2kw_group(kw) ==
    CASE kw \in {"NONE", "namespace", "prefix", "belongs-to", "yang-version"} ->
           "Y_MOD_MODULE_HEADER"
      [] kw \in {"include", "import"} -> "Y_MOD_LINKAGE"
      [] kw \in {"organization", "contact", "description", "reference"} -> "Y_MOD_META"
      [] kw = "revision" -> "Y_MOD_REVISION"
      [] kw \in {"anydata", "anyxml", "augment", "choice", "container", "deviation",
                 "extension", "feature", "grouping", "identity", "leaf", "leaf-list",
                 "list", "notification", "rpc", "typedef", "uses", "CUSTOM"} ->
           "Y_MOD_BODY"
      [] OTHER -> ""

\* the relative-order check that accepts every order
no_relative_order(kw, next_kw, parrent) == Result(LY_SUCCESS, <<>>)

yin_check_relative_order(kw, next_kw, parrent) ==
    LET gr == kw2kw_group(kw)
        next_gr == kw2kw_group(next_kw)
        value(g) == CHOOSE i \in 1..Len(yang_module_stmt) : yang_module_stmt[i] = g
    IN  IF gr = "" \/ next_gr = ""
        THEN Result(LY_EINT, <<Entry("LOGINT", next_kw)>>)
        ELSE IF value(gr) > value(next_gr)
        THEN Result(LY_EVALID, <<Entry("LY_VCODE_INORDER_YIN", next_kw)>>)
        ELSE Result(LY_SUCCESS, <<>>)

(***************************************************************************)
(* The handlers.  An operator named after a handler is the handler up to   *)
(* its call of yin_parse_content(): cur is the frame of the parent, whose  *)
(* table entry subinfo selected the handler; the result carries the frame  *)
(* of the call.  What a handler does after the call returns is the         *)
(* operator with the suffix _end.                                          *)
(***************************************************************************)
\* the parent given to subelems_allocator() for the table of the frame
tree_node_meta_parent(cur) == IF cur.kw = "module" THEN 0 ELSE cur.node

\* yin_parse_simple_element (UNIQUE) or yin_parse_simple_elements
yin_parse_simple_elem(st, cur, kw, subinfo, attrs, arg_type, arg_val_type) ==
    LET frame == Frame(kw, cur.node, subelems_custom, "", cur.exts)
        values == Get(st, cur.node, subinfo.dest)
        Element(a) == R(a.ret, a.log, Set(st, cur.node, subinfo.dest, a.val), frame)
        Elements(a) ==
            R(a.ret, a.log, Set(st, cur.node, subinfo.dest, Append(values, a.val)),
              [frame EXCEPT !.subelems = subelems_index(Len(values))])
    IN  IF YIN_SUBELEM_UNIQUE \in subinfo.flags
        THEN Element(yin_parse_attribute(attrs, arg_type, values, arg_val_type, kw))
        ELSE Elements(yin_parse_attribute(attrs, arg_type, NULL, arg_val_type, kw))

yin_parse_base(st, cur, parent, subinfo, attrs) ==
    LET type == cur.node
        Flagged(e) ==
            IF e.ret # LY_SUCCESS THEN e
            ELSE [e EXCEPT !.st = Set(e.st, type, "flags",
                                      Get(e.st, type, "flags") \cup {"LYS_SET_BASE"})]
    IN  IF parent = "type"
        THEN Flagged(yin_parse_simple_elem(st, cur, "base", Sub("base", "bases", {}), attrs,
                                           "name", "Y_PREF_IDENTIF_ARG"))
        ELSE IF parent = "identity"
        THEN yin_parse_simple_elem(st, cur, "base", Sub("base", "bases", {}), attrs,
                                   "name", "Y_PREF_IDENTIF_ARG")
        ELSE R(LY_EINT, <<Entry("LOGINT", "base")>>, st, NoFrame)

yin_parse_meta_element(st, cur, elem_type, subinfo, attrs) ==
    LET Checked(a) ==
            R(a.ret, a.log, st,
              Frame(elem_type, cur.node, subelems_meta(subinfo.dest), "", cur.exts))
    IN  Checked(yin_parse_attribute(attrs, YIN_ARG_NONE, NULL, "Y_MAYBE_STR_ARG", elem_type))

yin_parse_yangversion(st, cur, subinfo, attrs) ==
    LET Version(temp_version) ==
            IF temp_version = <<"1", ".", "0">> THEN LYS_VERSION_1_0 ELSE LYS_VERSION_1_1
        Bound(a) ==
            IF a.ret # LY_SUCCESS THEN R(a.ret, a.log, st, NoFrame)
            ELSE IF a.val \notin {<<"1", ".", "0">>, <<"1", ".", "1">>}
            THEN R(LY_EVALID, <<Entry("LY_VCODE_INVAL_YIN", "yang-version")>>, st, NoFrame)
            ELSE R(LY_SUCCESS, <<>>,
                   [Set(st, cur.node, subinfo.dest, Version(a.val))
                       EXCEPT !.mod_version = Version(a.val)],
                   Frame("yang-version", cur.node, subelems_custom, "", cur.exts))
    IN  Bound(yin_parse_attribute(attrs, "value", NULL, "Y_STR_ARG", "yang-version"))

\* lysp_check_prefix: value is the prefix of the import imp
lysp_check_prefix(st, imports, module_prefix, imp) ==
    LET value == st.nodes[imp]["prefix"]
    IN  IF module_prefix # NULL /\ module_prefix = value
        THEN Result("LY_EEXIST", <<Entry("LYVE_REFERENCE", "prefix")>>)
        ELSE IF \E u \in 1..Len(imports) :
                    /\ imports[u] # imp
                    /\ st.nodes[imports[u]]["prefix"] # NULL
                    /\ st.nodes[imports[u]]["prefix"] = value
        THEN Result("LY_EEXIST", <<Entry("LYVE_REFERENCE", "prefix")>>)
        ELSE Result(LY_SUCCESS, <<>>)

yin_parse_import(st, cur, subinfo, attrs) ==
    LET imp == NextId(st)
        Bound(a) ==
            R(a.ret, a.log,
              Set(NewItem(st, cur.node, subinfo.dest, "import", 0), imp, "name", a.val),
              [Frame("import", imp, subelems_import, "", imp)
                  EXCEPT !.owner = cur.node, !.meta_prefix = cur.meta_prefix])
    IN  Bound(yin_parse_attribute(attrs, "module", NULL, "Y_IDENTIF_ARG", "import"))

yin_parse_import_end(st, frame) ==
    LET Checked(c) ==
            IF c.ret # LY_SUCCESS THEN Result(LY_EVALID, c.log) ELSE Result(LY_SUCCESS, <<>>)
    IN  Checked(lysp_check_prefix(st, Get(st, frame.owner, "imports"), frame.meta_prefix,
                                  frame.node))

\* the handlers of the data nodes that only differ in the structure and table;
\* checked says whether the result of yin_parse_attribute() is looked at
yin_parse_node(st, cur, kw, subinfo, attrs, subelems, checked) ==
    LET id == NextId(st)
        Bound(a) ==
            R(IF checked THEN a.ret ELSE LY_SUCCESS, a.log,
              Set(NewItem(st, cur.node, subinfo.dest, kw, tree_node_meta_parent(cur)),
                  id, "name", a.val),
              Frame(kw, id, subelems, "", id))
    IN  Bound(yin_parse_attribute(attrs, "name", NULL, "Y_IDENTIF_ARG", kw))

yin_parse_any(st, cur, any_kw, subinfo, attrs) ==
    yin_parse_node(st, cur, any_kw, subinfo, attrs, subelems_any, TRUE)

yin_parse_leaf(st, cur, subinfo, attrs) ==
    yin_parse_node(st, cur, "leaf", subinfo, attrs, subelems_leaf, TRUE)

yin_parse_container(st, cur, subinfo, attrs) ==
    yin_parse_node(st, cur, "container", subinfo, attrs, subelems_container, TRUE)

\* the result of yin_parse_attribute() is not looked at
yin_parse_leaflist(st, cur, subinfo, attrs) ==
    yin_parse_node(st, cur, "leaf-list", subinfo, attrs, subelems_leaflist, FALSE)

\* the end of the leaf-list handler without its checks
leaflist_end_without_checks(st, frame) == Result(LY_SUCCESS, <<>>)

yin_parse_leaflist_end(st, frame) ==
    LET llist == st.nodes[frame.node]
    IN  IF llist["min"] # 0 /\ llist["dflts"] # <<>>
        THEN Result(LY_EVALID, <<Entry("LY_VCODE_INCHILDSTMSCOMB_YIN", "leaf-list")>>)
        ELSE IF llist["max"] # 0 /\ llist["min"] > llist["max"]
        THEN Result(LY_EVALID, <<Entry("LY_VCODE_INVAL_MINMAX", "leaf-list")>>)
        ELSE Result(LY_SUCCESS, <<>>)

\* lysp_parse_finalize_reallocated: the parent pointers of what the items of
\* the arrays hold are set to the places the items are at now
lysp_parse_finalize_reallocated(st, groupings, augments, actions, notifs) ==
    LET Held(n) ==
            LET node == st.nodes[n]
                Items(f) == IF f \in DOMAIN node
                            THEN {node[f][i] : i \in 1..Len(node[f])} ELSE {}
            IN  CASE node["kw"] = "grouping" ->
                       Items("data") \cup Items("actions") \cup Items("notifs")
                           \cup Items("groupings")
                  [] node["kw"] = "augment" ->
                       Items("child") \cup Items("actions") \cup Items("notifs")
                  [] node["kw"] = "notification" -> Items("data")
                  [] OTHER -> {}
        holders == {groupings[i] : i \in 1..Len(groupings)}
                       \cup {augments[i] : i \in 1..Len(augments)}
                       \cup {actions[i] : i \in 1..Len(actions)}
                       \cup {notifs[i] : i \in 1..Len(notifs)}
        Holder(c) == CHOOSE h \in holders : c \in Held(h)
    IN  [st EXCEPT !.nodes =
            [c \in 1..Len(st.nodes) |->
                IF \E h \in holders : c \in Held(h)
                THEN [st.nodes[c] EXCEPT !["parent_addr"] = st.nodes[Holder(c)]["addr"]]
                ELSE st.nodes[c]]]

yin_parse_grouping(st, cur, subinfo, attrs) ==
    yin_parse_node(st, cur, "grouping", subinfo, attrs, subelems_grouping, TRUE)

yin_parse_list(st, cur, subinfo, attrs) ==
    yin_parse_node(st, cur, "list", subinfo, attrs, subelems_list, TRUE)

yin_parse_list_end(st, frame) ==
    LET list == st.nodes[frame.node]
    IN  IF list["max"] # 0 /\ list["min"] > list["max"]
        THEN Result(LY_EVALID, <<Entry("LY_VCODE_INVAL_MINMAX", "list")>>)
        ELSE Result(LY_SUCCESS, <<>>)

\* the result of yin_parse_attribute() is not looked at
yin_parse_when(st, cur, subinfo, attrs) ==
    LET when == NextId(st)
        Bound(a) ==
            R(LY_SUCCESS, a.log,
              Set(NewPointee(st, cur.node, subinfo.dest, "when"), when, "cond", a.val),
              Frame("when", when, subelems_when, "", when))
    IN  Bound(yin_parse_attribute(attrs, "condition", NULL, "Y_STR_ARG", "when"))

\* yin_parse_range() and yin_parse_length() up to the content of the element:
\* the restriction is allocated and yin_parse_restriction() takes its argument
yin_parse_restriction(st, cur, restr_kw, attrs) ==
    LET restr == NextId(st)
        arg_type == IF restr_kw = "must" THEN "condition" ELSE "value"
        Bound(a) ==
            R(a.ret, a.log,
              Set(NewPointee(st, cur.node, restr_kw, "restr"), restr, "arg", a.val),
              Frame(restr_kw, restr, subelems_restr, "", restr))
    IN  Bound(yin_parse_attribute(attrs, arg_type, NULL, "Y_STR_ARG", restr_kw))

\* the end of a range or length without the flag of the type
restriction_end_without_flag(st, frame) == st

\* the rest of yin_parse_range() and yin_parse_length(): the flag of the type
yin_parse_restriction_end(st, frame) ==
    LET type == st.nodes[frame.node]["parent"]
        flag == IF frame.kw = "range" THEN "LYS_SET_RANGE" ELSE "LYS_SET_LENGTH"
    IN  Set(st, type, "flags", Get(st, type, "flags") \cup {flag})

yin_parse_type(st, cur, parent, subinfo, attrs) ==
    LET type == NextId(st)
        Nested(n) == Set(n, cur.node, "flags", Get(n, cur.node, "flags") \cup {"LYS_SET_TYPE"})
        st1 == IF parent = "type"
               THEN Nested(NewItem(st, cur.node, "types", "type", cur.node))
               ELSE NewPointee(st, cur.node, subinfo.dest, "type")
        Bound(a) ==
            R(a.ret, a.log, Set(st1, type, "name", a.val),
              Frame("type", type, subelems_type, "", type))
    IN  Bound(yin_parse_attribute(attrs, "name", NULL, "Y_PREF_IDENTIF_ARG", "type"))

\* CHECK_UNIQUENESS(ctx, ARRAY, name, STMT, IDENT): IDENT against the names of
\* all items of ARRAY but the last
CHECK_UNIQUENESS(st, ARRAY, IDENT) ==
    IF \E u \in 1..(Len(ARRAY) - 1) : st.nodes[ARRAY[u]]["name"] = IDENT
    THEN Result(LY_EVALID, <<Entry("LY_VCODE_DUPIDENT", IDENT)>>)
    ELSE Result(LY_SUCCESS, <<>>)

\* LY_ARRAY_NEW of an item of the array `array` of the type, with the flag set
new_type_enum(st, type, array, kw, flag) ==
    LET Flagged(n) == Set(n, type, "flags", Get(n, type, "flags") \cup {flag})
    IN  Flagged(NewItem(st, type, array, kw, type))

yin_parse_enum(st, cur, attrs) ==
    LET type == cur.node
        en == NextId(st)
        Unique(st3, u) ==
            IF u.ret # LY_SUCCESS THEN R(u.ret, u.log, st3, NoFrame)
            ELSE R(LY_SUCCESS, <<>>, st3, Frame("enum", en, subelems_enum, "", en))
        Named(a, st3) ==
            IF a.ret # LY_SUCCESS THEN R(a.ret, a.log, st3, NoFrame)
            ELSE IF a.val = <<>>
            THEN R(LY_EVALID, <<Entry("LYVE_SYNTAX_YANG", "enum")>>, st3, NoFrame)
            ELSE Unique(st3, CHECK_UNIQUENESS(st3, Get(st3, type, "enums"), a.val))
        Bound(a, st2) == Named(a, Set(st2, en, "name", a.val))
    IN  Bound(yin_parse_attribute(attrs, "name", NULL, "Y_IDENTIF_ARG", "enum"),
              new_type_enum(st, type, "enums", "enum", "LYS_SET_ENUM"))

yin_parse_bit(st, cur, attrs) ==
    LET type == cur.node
        en == NextId(st)
        Unique(st3, u) ==
            IF u.ret # LY_SUCCESS THEN R(u.ret, u.log, st3, NoFrame)
            ELSE R(LY_SUCCESS, <<>>, st3, Frame("bit", en, subelems_bit, "", en))
        Named(a, st3) ==
            IF a.ret # LY_SUCCESS THEN R(a.ret, a.log, st3, NoFrame)
            ELSE Unique(st3, CHECK_UNIQUENESS(st3, Get(st3, type, "enums"), a.val))
        Bound(a, st2) == Named(a, Set(st2, en, "name", a.val))
    IN  Bound(yin_parse_attribute(attrs, "name", NULL, "Y_IDENTIF_ARG", "bit"),
              new_type_enum(st, type, "bits", "bit", "LYS_SET_BIT"))

yin_parse_mandatory(st, cur, subinfo, attrs) ==
    LET flags == Get(st, cur.node, subinfo.dest)
        frame == Frame("mandatory", cur.node, subelems_custom, "", cur.exts)
        Bound(a) ==
            IF a.ret # LY_SUCCESS THEN R(a.ret, a.log, st, NoFrame)
            ELSE IF a.val = <<"t", "r", "u", "e">>
            THEN R(LY_SUCCESS, <<>>,
                   Set(st, cur.node, subinfo.dest, flags \cup {"LYS_MAND_TRUE"}), frame)
            ELSE IF a.val = <<"f", "a", "l", "s", "e">>
            THEN R(LY_SUCCESS, <<>>,
                   Set(st, cur.node, subinfo.dest, flags \cup {"LYS_MAND_FALSE"}), frame)
            ELSE R(LY_EVALID, <<Entry("LY_VCODE_INVAL_YIN", "mandatory")>>, st, NoFrame)
    IN  Bound(yin_parse_attribute(attrs, "value", NULL, "Y_STR_ARG", "mandatory"))

yin_parse_deviation(st, cur, subinfo, attrs) ==
    LET dev == NextId(st)
        st1 == NewItem(st, cur.node, subinfo.dest, "deviation", 0)
        Bound(a) ==
            IF a.ret # LY_SUCCESS THEN R(a.ret, a.log, st1, NoFrame)
            ELSE IF strlen(a.val) = 0
            THEN R(LY_EVALID, <<Entry("LYVE_SYNTAX_YANG", "deviation")>>,
                   Set(st1, dev, "nodeid", a.val), NoFrame)
            ELSE R(LY_SUCCESS, <<>>, Set(st1, dev, "nodeid", a.val),
                   Frame("deviation", dev, subelems_deviation, "", dev))
    IN  Bound(yin_parse_attribute(attrs, "target-node", NULL, "Y_STR_ARG", "deviation"))

\* the words of the argument of deviate
deviate_value(temp_val) ==
    CASE temp_val = <<"n", "o", "t", "-", "s", "u", "p", "p", "o", "r", "t", "e", "d">> ->
           LYS_DEV_NOT_SUPPORTED
      [] temp_val = <<"a", "d", "d">> -> LYS_DEV_ADD
      [] temp_val = <<"r", "e", "p", "l", "a", "c", "e">> -> LYS_DEV_REPLACE
      [] temp_val = <<"d", "e", "l", "e", "t", "e">> -> LYS_DEV_DELETE
      [] OTHER -> 0

\* yin_parse_deviate up to its call of yin_parse_content(): the structure d is
\* allocated, no list holds it yet
yin_parse_deviate(st, cur, subinfo, attrs) ==
    LET d == NextId(st)
        Shape(dev_mod) ==
            R(LY_SUCCESS, <<>>, [st EXCEPT !.nodes = Append(st.nodes, NewNode("deviate", 0))],
              [Frame("deviate", d, subelems_deviate(dev_mod), "", d)
                  EXCEPT !.owner = cur.node, !.dev_mod = dev_mod])
        Bound(a) ==
            IF a.ret # LY_SUCCESS THEN R(a.ret, a.log, st, NoFrame)
            ELSE IF deviate_value(a.val) = 0
            THEN R(LY_EVALID, <<Entry("LY_VCODE_INVAL_YIN", "deviate")>>, st, NoFrame)
            ELSE Shape(deviate_value(a.val))
    IN  Bound(yin_parse_attribute(attrs, "value", NULL, "Y_STR_ARG", "deviate"))

\* the end of the deviate handler without the insertion into the list
deviate_end_without_insert(st, frame) == Set(st, frame.node, "mod", frame.dev_mod)

\* yin_parse_deviate after yin_parse_content() returned success: d->mod is set
\* and d inserted at the end of the list of its deviation
yin_parse_deviate_end(st, frame) ==
    LET deviates == Get(st, frame.owner, "deviates")
    IN  Set(Set(st, frame.node, "mod", frame.dev_mod),
            frame.owner, "deviates", Append(deviates, frame.node))

\* the bytes 0x06 and 0x15 a stored pattern begins with
ACK == "0x06"
NAK == "0x15"

\* the pattern stored as it is written, without the byte before it
pattern_without_sentinel(st, cur, attrs) ==
    LET type == cur.node
        restr == NextId(st)
        Flagged(n) == Set(n, type, "flags", Get(n, type, "flags") \cup {"LYS_SET_PATTERN"})
        Bound(a, st1) ==
            IF a.ret # LY_SUCCESS THEN R(a.ret, a.log, st1, NoFrame)
            ELSE R(LY_SUCCESS, <<>>, Flagged(Set(st1, restr, "arg", a.val)),
                   Frame("pattern", restr, subelems_pattern, "", restr))
    IN  Bound(yin_parse_attribute(attrs, "value", NULL, "Y_STR_ARG", "pattern"),
              NewItem(st, type, "patterns", "pattern", type))

yin_parse_pattern(st, cur, attrs) ==
    LET type == cur.node
        restr == NextId(st)
        Flagged(n) == Set(n, type, "flags", Get(n, type, "flags") \cup {"LYS_SET_PATTERN"})
        Bound(a, st1) ==
            IF a.ret # LY_SUCCESS THEN R(a.ret, a.log, st1, NoFrame)
            ELSE R(LY_SUCCESS, <<>>, Flagged(Set(st1, restr, "arg", <<ACK>> \o a.val)),
                   Frame("pattern", restr, subelems_pattern, "", restr))
    IN  Bound(yin_parse_attribute(attrs, "value", NULL, "Y_STR_ARG", "pattern"),
              NewItem(st, type, "patterns", "pattern", type))

\* the modifier that leaves the sentinel of the pattern as it is
modifier_without_rewrite(st, cur, subinfo, attrs) ==
    LET Bound(a) ==
            IF a.ret # LY_SUCCESS THEN R(a.ret, a.log, st, NoFrame)
            ELSE IF a.val # <<"i", "n", "v", "e", "r", "t", "-", "m", "a", "t", "c", "h">>
            THEN R(LY_EVALID, <<Entry("LY_VCODE_INVAL_YIN", "modifier")>>, st, NoFrame)
            ELSE R(LY_SUCCESS, <<>>, st,
                   Frame("modifier", cur.node, subelems_custom, "", cur.exts))
    IN  Bound(yin_parse_attribute(attrs, "value", NULL, "Y_STR_ARG", "modifier"))

yin_parse_modifier(st, cur, subinfo, attrs) ==
    LET pat == Get(st, cur.node, subinfo.dest)
        Bound(a) ==
            IF pat = <<>> \/ Head(pat) # ACK THEN R(SIGABRT, <<>>, st, NoFrame)
            ELSE IF a.ret # LY_SUCCESS THEN R(a.ret, a.log, st, NoFrame)
            ELSE IF a.val # <<"i", "n", "v", "e", "r", "t", "-", "m", "a", "t", "c", "h">>
            THEN R(LY_EVALID, <<Entry("LY_VCODE_INVAL_YIN", "modifier")>>, st, NoFrame)
            ELSE R(LY_SUCCESS, <<>>, Set(st, cur.node, subinfo.dest, <<NAK>> \o Tail(pat)),
                   Frame("modifier", cur.node, subelems_custom, "", cur.exts))
    IN  Bound(yin_parse_attribute(attrs, "value", NULL, "Y_STR_ARG", "modifier"))

(***************************************************************************)
(* Numeric arguments.  strtol() and strtoul() skip white space, take an    *)
(* optional sign and the longest run of digits; ptr is what is left of the *)
(* string, the whole string when no digit was converted.  unsigned long    *)
(* has 64 bits: strtoul() of "-n" is 2^64 - n, kept here as the magnitude  *)
(* with neg set.  The literals of the model are shorter than the range of  *)
(* long, so errno stays 0.                                                 *)
(***************************************************************************)
isdigit(c) == c \in Digits
isspace(c) == c \in {" "}

digit_value(c) == CHOOSE d \in 0..9 : ToString(d) = c

RECURSIVE skip_space(_)
skip_space(s) == IF s # <<>> /\ isspace(Head(s)) THEN skip_space(Tail(s)) ELSE s

\* the longest run of digits at the head of s: its value, how many, the rest
RECURSIVE digit_run(_, _, _)
digit_run(s, acc, n) ==
    IF s # <<>> /\ isdigit(Head(s))
    THEN digit_run(Tail(s), acc * 10 + digit_value(Head(s)), n + 1)
    ELSE [mag |-> acc, count |-> n, rest |-> s]

\* the conversion both functions share: sign, magnitude, ptr
strto_common(nptr) ==
    LET Signed(s) ==
            LET neg == s # <<>> /\ Head(s) = "-"
                Run(d) ==
                    IF d.count = 0
                    THEN [neg |-> FALSE, mag |-> 0, ptr |-> nptr]
                    ELSE [neg |-> neg /\ d.mag # 0, mag |-> d.mag, ptr |-> d.rest]
            IN  Run(digit_run(IF s # <<>> /\ Head(s) \in {"-", "+"} THEN Tail(s) ELSE s,
                              0, 0))
    IN  Signed(skip_space(nptr))

\* strtol(nptr, &ptr, 10)
strtol(nptr) ==
    LET Value(c) == [num |-> IF c.neg THEN -c.mag ELSE c.mag, ptr |-> c.ptr]
    IN  Value(strto_common(nptr))

\* strtoul(nptr, &ptr, 10): the value is 2^64 - mag when neg, mag otherwise
strtoul(nptr) == strto_common(nptr)

\* unum > UINT32_MAX, and num > 18, for a result of strtoul(): a magnitude of
\* the model is below 2^31, its negation above 2^63
above_uint32(unum) == unum.neg
above(unum, n) == unum.neg \/ unum.mag > n

\* the 32-bit value stored from an unsigned long that passed the range check
stored(unum) == unum.mag

yin_parse_value_pos_element(st, cur, kw, attrs) ==
    LET enm == cur.node
        st1 == Set(st, enm, "flags", Get(st, enm, "flags") \cup {"LYS_SET_VALUE"})
        error == R(LY_EVALID, <<Entry("LY_VCODE_INVAL_YIN", kw)>>, st1, NoFrame)
        Saved(value) ==
            R(LY_SUCCESS, <<>>, Set(st1, enm, "value", value),
              Frame(kw, enm, subelems_custom, "", enm))
        Signed(c) ==
            IF c.num < -2147483647 - 1 \/ c.num > 2147483647 THEN error
            ELSE IF c.ptr # <<>> THEN error
            ELSE Saved(c.num)
        Unsigned(c) ==
            IF above_uint32(c) THEN error
            ELSE IF c.ptr # <<>> THEN error
            ELSE Saved(stored(c))
        Bound(a) ==
            IF a.ret # LY_SUCCESS THEN R(a.ret, a.log, st1, NoFrame)
            ELSE IF \/ a.val = NULL
                    \/ a.val = <<>>
                    \/ a.val[1] = "+"
                    \/ (a.val[1] = "0" /\ Len(a.val) > 1)
                    \/ (kw = "position" /\ a.val = <<"-", "0">>)
            THEN error
            ELSE IF kw = "value" THEN Signed(strtol(a.val))
            ELSE Unsigned(strtoul(a.val))
    IN  Bound(yin_parse_attribute(attrs, "value", NULL, "Y_STR_ARG", kw))

yin_parse_fracdigits(st, cur, attrs) ==
    LET type == cur.node
        error == R(LY_EVALID, <<Entry("LY_VCODE_INVAL_YIN", "fraction-digits")>>, st, NoFrame)
        Flagged(n) == Set(n, type, "flags", Get(n, type, "flags") \cup {"LYS_SET_FRDIGITS"})
        Converted(c) ==
            IF c.ptr # <<>> THEN error
            ELSE IF above(c, 18) THEN error
            ELSE R(LY_SUCCESS, <<>>, Flagged(Set(st, type, "fraction_digits", stored(c))),
                   Frame("fraction-digits", type, subelems_custom, "", type))
        Bound(a) ==
            IF a.ret # LY_SUCCESS THEN R(a.ret, a.log, st, NoFrame)
            ELSE IF a.val = <<>> \/ a.val[1] = "0" \/ ~isdigit(a.val[1])
            THEN error
            ELSE Converted(strtoul(a.val))
    IN  Bound(yin_parse_attribute(attrs, "value", NULL, "Y_STR_ARG", "fraction-digits"))

yin_parse_maxelements(st, node, attrs) ==
    LET st1 == Set(st, node, "flags", Get(st, node, "flags") \cup {"LYS_SET_MAX"})
        frame == Frame("max-elements", node, subelems_custom, "", node)
        Converted(c) ==
            IF c.ptr # <<>>
            THEN R(LY_EVALID, <<Entry("LY_VCODE_INVAL_YIN", "max-elements")>>, st1, NoFrame)
            ELSE IF above_uint32(c)
            THEN R(LY_EVALID, <<Entry("LY_VCODE_OOB_YIN", "max-elements")>>, st1, NoFrame)
            ELSE R(LY_SUCCESS, <<>>, Set(st1, node, "max", stored(c)), frame)
        Bound(a) ==
            IF a.ret # LY_SUCCESS THEN R(a.ret, a.log, st1, NoFrame)
            ELSE IF \/ a.val = NULL
                    \/ a.val = <<>>
                    \/ a.val[1] = "0"
                    \/ (a.val[1] # "u" /\ ~isdigit(a.val[1]))
            THEN R(LY_EVALID, <<Entry("LY_VCODE_INVAL_YIN", "max-elements")>>, st1, NoFrame)
            ELSE IF a.val # <<"u", "n", "b", "o", "u", "n", "d", "e", "d">>
            THEN Converted(strtoul(a.val))
            ELSE R(LY_SUCCESS, <<>>, st1, frame)
    IN  Bound(yin_parse_attribute(attrs, "value", NULL, "Y_STR_ARG", "max-elements"))

yin_parse_minelements(st, node, attrs) ==
    LET st1 == Set(st, node, "flags", Get(st, node, "flags") \cup {"LYS_SET_MIN"})
        Converted(c) ==
            IF c.ptr # <<>>
            THEN R(LY_EVALID, <<Entry("LY_VCODE_INVAL_YIN", "min-elements")>>, st1, NoFrame)
            ELSE IF above_uint32(c)
            THEN R(LY_EVALID, <<Entry("LY_VCODE_OOB_YIN", "min-elements")>>, st1, NoFrame)
            ELSE R(LY_SUCCESS, <<>>, Set(st1, node, "min", stored(c)),
                   Frame("min-elements", node, subelems_custom, "", node))
        Bound(a) ==
            IF a.ret # LY_SUCCESS THEN R(a.ret, a.log, st1, NoFrame)
            ELSE IF \/ a.val = NULL
                    \/ a.val = <<>>
                    \/ (a.val[1] = "0" /\ Len(a.val) > 1)
            THEN R(LY_EVALID, <<Entry("LY_VCODE_INVAL_YIN", "min-elements")>>, st1, NoFrame)
            ELSE Converted(strtoul(a.val))
    IN  Bound(yin_parse_attribute(attrs, "value", NULL, "Y_STR_ARG", "min-elements"))

\* yin_parse_minmax for the parents leaf-list and list: dest is the node
yin_parse_minmax(st, cur, parent, current, attrs) ==
    IF \/ current \notin {"max-elements", "min-elements"}
       \/ parent \notin {"leaf-list", "refine", "list", "deviate"}
    THEN R(SIGABRT, <<>>, st, NoFrame)
    ELSE IF current = "max-elements"
    THEN yin_parse_maxelements(st, cur.node, attrs)
    ELSE yin_parse_minelements(st, cur.node, attrs)

(***************************************************************************)
(* The extension instance and the dispatcher.                              *)
(***************************************************************************)
\* what the lexer delivers: an element (content is "empty" for <a/>, "text"
\* for text content, "elems" for child elements), a closing tag or the end
\* of the input
El(ns, name, attrs, content, text) ==
    [ns |-> ns, prefix |-> "", name |-> name, attrs |-> attrs, content |-> content,
     text |-> text]
\* an element of another namespace, named with the prefix bound to it
Ext(prefix, name, attrs, content, text) ==
    [El("other", name, attrs, content, text) EXCEPT !.prefix = prefix]
EndTag == El("", "", <<>>, "close", <<>>)
EndOfInput == El("", "", <<>>, "eof", <<>>)

\* the name of the element with its prefix
name2fullname(t) == IF t.prefix = "" THEN t.name ELSE t.prefix \o ":" \o t.name

kw2lyext_substmt(kw) ==
    IF kw \in {"argument", "base", "belongs-to", "contact", "default", "description",
               "error-app-tag", "error-message", "key", "namespace", "organization",
               "path", "prefix", "presence", "reference", "revision-date", "units",
               "value", "yang-version", "modifier", "require-instance", "yin-element",
               "config", "mandatory", "ordered-by", "status", "fraction-digits",
               "max-elements", "min-elements", "position", "unique", "if-feature"}
    THEN kw
    ELSE "SELF"

LYS_YIN_ATTR == "LYS_YIN_ATTR"

\* the process is ended by the signal of an access through a null pointer
SIGSEGV == "SIGSEGV"

\* the statements made of the attributes from the i-th on, added to the
\* children of node e; with_prefixed tells whether an attribute with a prefix
\* gets a statement (without argument) too
RECURSIVE attribute_statements(_, _, _, _, _)
attribute_statements(st, e, attrs, i, with_prefixed) ==
    IF i > Len(attrs) THEN st
    ELSE IF attrs[i].prefix # "" /\ ~with_prefixed
    THEN attribute_statements(st, e, attrs, i + 1, with_prefixed)
    ELSE LET new == NextId(st)
             made == [NewNode("stmt", e) EXCEPT
                         !["flags"] = {LYS_YIN_ATTR},
                         !["stmt"] = attrs[i].name,
                         !["arg"] = IF attrs[i].prefix = "" THEN attrs[i].content
                                    ELSE NULL]
             linked == [st EXCEPT !.nodes = Append(st.nodes, made)]
         IN  attribute_statements(Set(linked, e, "child", Append(st.nodes[e]["child"], new)),
                                  e, attrs, i + 1, with_prefixed)

\* the extension instance without its attributes
extension_instance_without_attributes(st, cur, subelem, t) ==
    LET e == NextId(st)
        Named(n) ==
            [n EXCEPT !.nodes[e]["name"] = name2fullname(t),
                      !.nodes[e]["insubstmt"] = kw2lyext_substmt(cur.kw),
                      !.nodes[e]["insubstmt_index"] =
                           IF subelem.dest = "index" THEN subelem.index ELSE 0]
        Content(n) ==
            IF t.content = "text" THEN R(LY_SUCCESS, <<>>, Set(n, e, "argument", t.text), NoFrame)
            ELSE IF t.content = "elems"
            THEN R(LY_SUCCESS, <<>>, n, Frame(YANG_CUSTOM, e, <<>>, "", 0))
            ELSE R(LY_SUCCESS, <<>>, n, NoFrame)
    IN  Content(Named(NewItem(st, cur.exts, "exts", YANG_CUSTOM, 0)))

\* up to the loop over the child elements; the frame is the one of that loop
yin_parse_extension_instance(st, cur, subelem, t) ==
    LET e == NextId(st)
        Named(n) ==
            [n EXCEPT !.nodes[e]["name"] = name2fullname(t),
                      !.nodes[e]["insubstmt"] = kw2lyext_substmt(cur.kw),
                      !.nodes[e]["insubstmt_index"] =
                           IF subelem.dest = "index" THEN subelem.index ELSE 0]
        Content(n) ==
            IF t.content = "text" THEN R(LY_SUCCESS, <<>>, Set(n, e, "argument", t.text), NoFrame)
            ELSE IF t.content = "elems"
            THEN R(LY_SUCCESS, <<>>, n, Frame(YANG_CUSTOM, e, <<>>, "", 0))
            ELSE R(LY_SUCCESS, <<>>, n, NoFrame)
    IN  Content(attribute_statements(Named(NewItem(st, cur.exts, "exts", YANG_CUSTOM, 0)),
                                     e, t.attrs, 1, FALSE))

\* the statement the loop over the children of an element appends next to
GenericLast(st, element) ==
    IF st.nodes[element]["child"] = <<>> THEN 0
    ELSE st.nodes[element]["child"][Len(st.nodes[element]["child"])]

\* yin_parse_element_generic() for the element t; owner is the statement the
\* new one is written to the chain of (0: to a variable of the caller).  An
\* element with child elements is left in the loop over them; the closing tag
\* of an element without content is read by that loop at once.
yin_parse_element_generic(st, t, owner) ==
    LET g == NextId(st)
        made == [st EXCEPT !.nodes =
                    Append(st.nodes, [NewNode("stmt", owner) EXCEPT !["stmt"] = t.name])]
        chained == IF owner = 0 THEN made
                   ELSE Set(made, owner, "child", Append(st.nodes[owner]["child"], g))
        Content(n) ==
            IF t.content = "text"
            THEN R(LY_SUCCESS, <<>>,
                   IF Len(t.text) # 0 THEN Set(n, g, "arg", t.text) ELSE n, NoFrame)
            ELSE IF t.content = "elems"
            THEN R(LY_SUCCESS, <<>>, n, Frame("generic", g, <<>>, "", 0))
            ELSE IF GenericLast(n, g) = 0
            THEN R(SIGSEGV, <<>>, n, NoFrame)
            ELSE R(LY_EMEM, <<Entry("LOGMEM", "")>>,
                   Set([n EXCEPT !.nodes = Append(n.nodes, NewNode("stmt", g))],
                       g, "child", Append(n.nodes[g]["child"], NextId(n))),
                   NoFrame)
    IN  Content(attribute_statements(chained, g, t.attrs, 1, TRUE))

\* the loop over the child elements of the element of frame cur reads the
\* element t: in an extension instance the statement is linked when it is
\* complete, in an element of the walker it is written next to the last one
generic_child(st, cur, t) ==
    LET Linked(g, id) ==
            IF g.ret # LY_SUCCESS \/ g.frame # NoFrame THEN g
            ELSE R(LY_SUCCESS, <<>>,
                   Set(g.st, cur.node, "child", Append(g.st.nodes[cur.node]["child"], id)),
                   NoFrame)
    IN  IF cur.kw = YANG_CUSTOM
        THEN Linked(yin_parse_element_generic(st, t, 0), NextId(st))
        ELSE IF GenericLast(st, cur.node) = 0
        THEN R(SIGSEGV, <<>>, st, NoFrame)
        ELSE yin_parse_element_generic(st, t, cur.node)

\* the same loop reads the closing tag of its element: the walker takes it
\* for one more child, whose name is NULL
generic_end(st, cur) ==
    IF cur.kw = YANG_CUSTOM THEN [ret |-> LY_SUCCESS, log |-> <<>>, st |-> st]
    ELSE IF GenericLast(st, cur.node) = 0
    THEN [ret |-> SIGSEGV, log |-> <<>>, st |-> st]
    ELSE [ret |-> LY_EMEM, log |-> <<Entry("LOGMEM", "")>>,
          st |-> Set([st EXCEPT !.nodes = Append(st.nodes, NewNode("stmt", cur.node))],
                     cur.node, "child", Append(st.nodes[cur.node]["child"], NextId(st)))]

\* the keywords that have a case in the switch of yin_parse_content()
switch_cases ==
    {"CUSTOM", "action", "rpc", "anydata", "anyxml", "argument", "augment",
     "base", "belongs-to", "bit", "case", "choice", "config", "contact",
     "description", "organization", "reference", "container", "default",
     "error-app-tag", "key", "presence", "deviate", "deviation", "enum",
     "error-message", "extension", "feature", "fraction-digits", "grouping",
     "identity", "if-feature", "units", "import", "include", "input",
     "output", "leaf", "leaf-list", "length", "list", "mandatory",
     "max-elements", "min-elements", "modifier", "must", "namespace",
     "notification", "ordered-by", "path", "pattern", "value", "position",
     "prefix", "range", "refine", "require-instance", "revision",
     "revision-date", "status", "type", "typedef", "unique", "uses", "when",
     "yang-version", "yin-element", "YIN_TEXT", "YIN_VALUE"}

\* the switch of yin_parse_content() over the keyword of the child: a keyword
\* without a case takes the default; a case whose handler this model does not
\* have ends the run as not modelled
yin_parse_content_switch(st, cur, kw, subelem, t) ==
    CASE kw \notin switch_cases -> R(LY_EINT, <<Entry("LOGINT", kw)>>, st, NoFrame)
      [] kw = "CUSTOM" -> yin_parse_extension_instance(st, cur, subelem, t)
      [] kw \in {"anydata", "anyxml"} -> yin_parse_any(st, cur, kw, subelem, t.attrs)
      [] kw = "bit" -> yin_parse_bit(st, cur, t.attrs)
      [] kw \in {"contact", "description", "organization", "reference"} ->
           yin_parse_meta_element(st, cur, kw, subelem, t.attrs)
      [] kw = "container" -> yin_parse_container(st, cur, subelem, t.attrs)
      [] kw \in {"default", "presence"} ->
           yin_parse_simple_elem(st, cur, kw, subelem, t.attrs, "value", "Y_STR_ARG")
      [] kw = "deviate" -> yin_parse_deviate(st, cur, subelem, t.attrs)
      [] kw = "deviation" -> yin_parse_deviation(st, cur, subelem, t.attrs)
      [] kw = "enum" -> yin_parse_enum(st, cur, t.attrs)
      [] kw = "fraction-digits" -> yin_parse_fracdigits(st, cur, t.attrs)
      [] kw \in {"if-feature", "units"} ->
           yin_parse_simple_elem(st, cur, kw, subelem, t.attrs, "name", "Y_STR_ARG")
      [] kw = "grouping" -> yin_parse_grouping(st, cur, subelem, t.attrs)
      [] kw = "import" -> yin_parse_import(st, cur, subelem, t.attrs)
      [] kw = "leaf" -> yin_parse_leaf(st, cur, subelem, t.attrs)
      [] kw = "leaf-list" -> yin_parse_leaflist(st, cur, subelem, t.attrs)
      [] kw = "list" -> yin_parse_list(st, cur, subelem, t.attrs)
      [] kw = "mandatory" -> yin_parse_mandatory(st, cur, subelem, t.attrs)
      [] kw \in {"max-elements", "min-elements"} ->
           yin_parse_minmax(st, cur, cur.kw, kw, t.attrs)
      [] kw = "modifier" -> yin_parse_modifier(st, cur, subelem, t.attrs)
      [] kw = "namespace" ->
           yin_parse_simple_elem(st, cur, kw, subelem, t.attrs, "uri", "Y_STR_ARG")
      [] kw = "pattern" -> yin_parse_pattern(st, cur, t.attrs)
      [] kw \in {"range", "length"} -> yin_parse_restriction(st, cur, kw, t.attrs)
      [] kw \in {"value", "position"} ->
           yin_parse_value_pos_element(st, cur, kw, t.attrs)
      [] kw = "prefix" ->
           yin_parse_simple_elem(st, cur, kw, subelem, t.attrs, "value", "Y_IDENTIF_ARG")
      [] kw = "type" -> yin_parse_type(st, cur, cur.kw, subelem, t.attrs)
      [] kw = "when" -> yin_parse_when(st, cur, subelem, t.attrs)
      [] kw = "yang-version" -> yin_parse_yangversion(st, cur, subelem, t.attrs)
      [] kw \in {YIN_TEXT, YIN_VALUE} ->
           R(LY_SUCCESS, <<>>, st, Frame(kw, cur.node, <<>>, subelem.dest, 0))
      [] kw = "base" -> yin_parse_base(st, cur, cur.kw, subelem, t.attrs)
      [] OTHER -> R(NotModelled, <<Entry(NotModelled, kw)>>, st, NoFrame)

\* the result of one turn of the loop of yin_parse_content(): cur is the frame
\* as the turn leaves it, frame the one of the call the handler makes
Turn(r, l, st, cur, frame) ==
    [ret |-> r, log |-> l, st |-> st, cur |-> cur, frame |-> frame]

\* the flag check without the VER2 rule
flags_without_ver2(st, cur, subelem, kw) ==
    IF /\ YIN_SUBELEM_UNIQUE \in subelem.flags
       /\ YIN_SUBELEM_PARSED \in subelem.flags
    THEN Result(LY_EVALID, <<Entry("LY_VCODE_SUBELEM_REDEF", kw)>>)
    ELSE IF YIN_SUBELEM_FIRST \in subelem.flags
    THEN yin_check_subelem_first_constraint(cur.subelems, cur.kw, subelem)
    ELSE Result(LY_SUCCESS, <<>>)

\* the flag check without the UNIQUE rule
flags_without_unique(st, cur, subelem, kw) ==
    IF /\ YIN_SUBELEM_FIRST \in subelem.flags
       /\ yin_check_subelem_first_constraint(cur.subelems, cur.kw,
                                             subelem).ret # LY_SUCCESS
    THEN yin_check_subelem_first_constraint(cur.subelems, cur.kw, subelem)
    ELSE IF YIN_SUBELEM_VER2 \in subelem.flags /\ st.mod_version < 2
    THEN Result(LY_EVALID, <<Entry("LY_VCODE_INSUBELEM2", kw)>>)
    ELSE Result(LY_SUCCESS, <<>>)

\* the flag check with a VER2 rule that refuses a declared version 1.0 only
flags_with_undeclared_version(st, cur, subelem, kw) ==
    IF /\ YIN_SUBELEM_UNIQUE \in subelem.flags
       /\ YIN_SUBELEM_PARSED \in subelem.flags
    THEN Result(LY_EVALID, <<Entry("LY_VCODE_SUBELEM_REDEF", kw)>>)
    ELSE IF YIN_SUBELEM_FIRST \in subelem.flags
    THEN yin_check_subelem_first_constraint(cur.subelems, cur.kw, subelem)
    ELSE IF YIN_SUBELEM_VER2 \in subelem.flags /\ st.mod_version = LYS_VERSION_1_0
    THEN Result(LY_EVALID, <<Entry("LY_VCODE_INSUBELEM2", kw)>>)
    ELSE Result(LY_SUCCESS, <<>>)

\* the flag check of the turn: UNIQUE, FIRST, VER2, in this order
yin_parse_content_flags(st, cur, subelem, kw) ==
    IF /\ YIN_SUBELEM_UNIQUE \in subelem.flags
       /\ YIN_SUBELEM_PARSED \in subelem.flags
    THEN Result(LY_EVALID, <<Entry("LY_VCODE_SUBELEM_REDEF", kw)>>)
    ELSE IF /\ YIN_SUBELEM_FIRST \in subelem.flags
            /\ yin_check_subelem_first_constraint(cur.subelems, cur.kw,
                                                  subelem).ret # LY_SUCCESS
    THEN yin_check_subelem_first_constraint(cur.subelems, cur.kw, subelem)
    ELSE IF YIN_SUBELEM_VER2 \in subelem.flags /\ st.mod_version < 2
    THEN Result(LY_EVALID, <<Entry("LY_VCODE_INSUBELEM2", kw)>>)
    ELSE Result(LY_SUCCESS, <<>>)

\* the turn for the child of keyword kw, once its table entry i is found:
\* relative order, the flag check, the PARSED mark, the handler
yin_parse_content_record(st, cur, last_kw, kw, i, t) ==
    LET subelem == cur.subelems[i]
        Marked(cur2) ==
            LET Handled(h) == Turn(h.ret, h.log, h.st, cur2, h.frame)
            IN  Handled(yin_parse_content_switch(st, cur2, kw, subelem, t))
        Ordered(order) ==
            IF order.ret # LY_SUCCESS THEN order
            ELSE yin_parse_content_flags(st, cur, subelem, kw)
        Checked(c) ==
            IF c.ret # LY_SUCCESS
            THEN Turn(c.ret, c.log, st, cur, NoFrame)
            ELSE Marked([cur EXCEPT !.subelems[i].flags = @ \cup {YIN_SUBELEM_PARSED}])
    IN  Checked(Ordered(IF cur.kw \in {"module", "submodule"}
                        THEN yin_check_relative_order(last_kw, kw, cur.kw)
                        ELSE Result(LY_SUCCESS, <<>>)))

\* the statements that are a child of some shape of deviate
isdevsub(kw) ==
    kw \in {"config", "default", "mandatory", "max-elements", "min-elements", "must",
            "type", "unique", "units", "CUSTOM"}

\* the child without a table entry, every parent treated alike
unexpected_without_indev(current_element, kw, t) ==
    Result(LY_EVALID, <<Entry("LY_VCODE_UNEXP_SUBELEM", t.name)>>)

\* the child element t of keyword kw has no entry in the table
yin_parse_content_unexpected(current_element, kw, t) ==
    IF current_element = "deviate" /\ isdevsub(kw)
    THEN Result(LY_EVALID, <<Entry("LY_VCODE_INDEV_YIN", kw)>>)
    ELSE Result(LY_EVALID, <<Entry("LY_VCODE_UNEXP_SUBELEM", t.name)>>)

\* one turn of the loop of yin_parse_content() over the child element t, up to
\* the call of yin_parse_content() its handler makes
yin_parse_content_child(st, cur, t) ==
    LET Matched(kw, cur1) ==
            LET Unexpected(u) == Turn(u.ret, u.log, st, cur1, NoFrame)
                Found(i) ==
                    IF i = 0
                    THEN Unexpected(yin_parse_content_unexpected(cur.kw, kw, t))
                    ELSE yin_parse_content_record(st, cur1, cur.kwv, kw, i, t)
            IN  Found(get_record(kw, Len(cur.subelems), cur.subelems))
        Read(kw) == Matched(kw, [cur EXCEPT !.kwv = kw, !.children = Append(@, kw)])
    IN  Read(yin_match_keyword(t.name, t.ns, cur.kw))

\* the end of yin_parse_content(), the mandatory check, then the rest of the
\* handler that made the call
yin_parse_content_end(st, frame) ==
    LET Same(e) == [ret |-> e.ret, log |-> e.log, st |-> st]
        Finalized(node) ==
            lysp_parse_finalize_reallocated(st, node["groupings"], <<>>, node["actions"],
                                            node["notifs"])
        Mandatory(m) ==
            IF m.ret # LY_SUCCESS THEN Same(m)
            ELSE CASE frame.kw = "import" -> Same(yin_parse_import_end(st, frame))
                   [] frame.kw = "leaf-list" -> Same(yin_parse_leaflist_end(st, frame))
                   [] frame.kw = "list" ->
                        [ret |-> yin_parse_list_end(st, frame).ret,
                         log |-> yin_parse_list_end(st, frame).log,
                         st |-> Finalized(st.nodes[frame.node])]
                   [] frame.kw \in {"container", "grouping"} ->
                        [ret |-> LY_SUCCESS, log |-> <<>>,
                         st |-> Finalized(st.nodes[frame.node])]
                   [] frame.kw = "deviate" ->
                        [ret |-> LY_SUCCESS, log |-> <<>>,
                         st |-> yin_parse_deviate_end(st, frame)]
                   [] frame.kw \in {"range", "length"} ->
                        [ret |-> LY_SUCCESS, log |-> <<>>,
                         st |-> yin_parse_restriction_end(st, frame)]
                   [] OTHER -> Same(Result(LY_SUCCESS, <<>>))
    IN  Mandatory(yin_check_subelem_mandatory_constraint(frame.subelems, frame.kw))

\* yin_parse_content() of an element t without child elements: the text
\* branch when there is content, then the end
yin_parse_content_text(st, frame, t) ==
    LET End(st1) == yin_parse_content_end(st1, frame)
        Validated(v) ==
            IF v.ret # LY_SUCCESS
            THEN [ret |-> v.ret, log |-> <<Entry(v.code, frame.kw)>>, st |-> st]
            ELSE IF frame.text_content # ""
            THEN End(Set(st, frame.node, frame.text_content, t.text))
            ELSE End(st)
    IN  IF t.content = "text"
        THEN Validated(yin_validate_value("Y_STR_ARG", t.text))
        ELSE End(st)

yin_parse_mod(st, mod_attrs, mod) ==
    LET Bound(a) ==
            R(a.ret, a.log, Set(st, mod, "mod->name", a.val),
              [Frame("module", mod, subelems_mod, "", mod)
                  EXCEPT !.meta_prefix = st.lmod["mod->prefix"]])
    IN  Bound(yin_parse_attribute(mod_attrs, "name", st.lmod["mod->name"],
                                  "Y_IDENTIF_ARG", "module"))

(***************************************************************************)
(* The state machine.  pc is "start" before the root element is read,      *)
(* "parsing" inside it, "post_root" when it is closed and "done" when      *)
(* yin_parse_module() has returned ret.  An error ends the run in the step *)
(* that detects it; stack and tok stay as they were at that point.         *)
(***************************************************************************)
\* lysp_module_free: the structures freed with the module, those the root
\* holds in its arrays, lists and pointers, and what these hold in turn
RECURSIVE lysp_module_free(_, _, _)
lysp_module_free(st, held, depth) ==
    LET strings == {"dflts", "uniques", "iffeatures", "bases"}
        Of(n) ==
            LET node == st.nodes[n]
            IN  (UNION {{node[f][i] : i \in 1..Len(node[f])} :
                            f \in DOMAIN node \cap (SeqFields \ strings)})
                    \cup ({node[f] : f \in DOMAIN node \cap {"when", "type"}} \ {0})
        more == held \cup UNION {Of(n) : n \in held}
    IN  IF depth = 0 \/ more = held THEN held ELSE lysp_module_free(st, more, depth - 1)

\* what is still allocated when yin_parse_module() returns the error logged
\* as l: s is the stack of the calls of yin_parse_content() the error
\* unwinds, t the element whose attributes the innermost call had loaded
unreleased(s, st, t, l) ==
    LET root == IF st.nodes = <<>> THEN {} ELSE {1}
        deviates == {s[i].node : i \in {j \in 1..Len(s) : s[j].kw = "deviate"}}
        freed == lysp_module_free(st, root, Len(st.nodes)) \cup deviates
        attrs == IF /\ l # <<>>
                    /\ l[Len(l)].code = "LY_VCODE_SUBELEM_REDEF"
                    /\ t.attrs # <<>>
                 THEN {[what |-> "attrs", id |-> 0]} ELSE {}
    IN  {[what |-> "node", id |-> n] : n \in (1..Len(st.nodes)) \ freed} \cup attrs

Step(p, r, l, s, st) ==
    /\ leaked' = IF p = "done" /\ r # LY_SUCCESS THEN unreleased(s, st, tok', l) ELSE {}
    /\ pc' = p
    /\ ret' = r
    /\ log' = log \o l
    /\ stack' = s
    /\ nodes' = st.nodes
    /\ lmod' = st.lmod
    /\ mod_version' = st.mod_version

Top == stack[Len(stack)]

\* yin_parse_module() up to the first child of the root element
ParseRoot(t) ==
    /\ pc = "start"
    /\ tok' = IF allocator.fails = "yin_ctx" THEN tok ELSE t
    /\ consumed' = IF allocator.fails = "yin_ctx" THEN 0 ELSE 1
    /\ UNCHANGED <<alphabet, allocator>>
    /\ LET st == State(nodes, lmod, mod_version)
           mod_p == NextId(st)
           Text(m, x) ==
               IF x.ret # LY_SUCCESS
               THEN Step("done", x.ret, m.log \o x.log, <<m.frame>>, x.st)
               ELSE Step("post_root", LY_SUCCESS, m.log \o x.log, <<>>, x.st)
           Mod(m) ==
               IF m.ret # LY_SUCCESS
               THEN Step("done", m.ret, m.log, <<m.frame>>, m.st)
               ELSE IF t.content = "elems"
               THEN Step("parsing", LY_SUCCESS, m.log, <<m.frame>>, m.st)
               ELSE Text(m, yin_parse_content_text(m.st, m.frame, t))
           Root(kw) ==
               IF kw = "submodule"
               THEN Step("done", LY_EINVAL, <<Entry("LY_EDENIED", kw)>>, stack, st)
               ELSE IF kw # "module"
               THEN Step("done", LY_EVALID, <<Entry("LY_VCODE_MOD_SUBOMD", kw)>>, stack, st)
               ELSE IF allocator.fails = "mod_p"
               THEN Step("done", LY_SUCCESS, <<Entry("LOGMEM", "")>>, stack, st)
               ELSE Mod(yin_parse_mod(
                        [st EXCEPT !.nodes = Append(st.nodes, NewNode("module", 0))],
                        t.attrs, mod_p))
       IN  IF allocator.fails = "yin_ctx"
           THEN Step("done", LY_EMEM, <<Entry("LOGMEM", "")>>, stack, st)
           ELSE Root(yin_match_keyword(t.name, t.ns, YANG_NONE))

\* the loop of yin_parse_content() reads the child element t
Child(t) ==
    /\ pc = "parsing"
    /\ consumed < MaxElems
    /\ tok' = t
    /\ consumed' = consumed + 1
    /\ UNCHANGED <<alphabet, allocator>>
    /\ LET Text(c, s, x) ==
               IF x.ret # LY_SUCCESS
               THEN Step("done", x.ret, c.log \o x.log, Append(s, c.frame), x.st)
               ELSE Step("parsing", LY_SUCCESS, c.log \o x.log, s, x.st)
           Turned(c, s) ==
               IF c.ret # LY_SUCCESS
               THEN Step("done", c.ret, c.log, s, c.st)
               ELSE IF c.cur.kwv = "CUSTOM"
               THEN Step("parsing", LY_SUCCESS, c.log,
                         IF c.frame = NoFrame THEN s ELSE Append(s, c.frame), c.st)
               ELSE IF t.content = "elems"
               THEN Step("parsing", LY_SUCCESS, c.log, Append(s, c.frame), c.st)
               ELSE Text(c, s, yin_parse_content_text(c.st, c.frame, t))
           Read(c) == Turned(c, [stack EXCEPT ![Len(stack)] = c.cur])
           Walked(g, s) ==
               IF g.ret # LY_SUCCESS THEN Step("done", g.ret, g.log, s, g.st)
               ELSE Step("parsing", LY_SUCCESS, g.log,
                         IF g.frame = NoFrame THEN s ELSE Append(s, g.frame), g.st)
       IN  IF Top.kw \in {YANG_CUSTOM, "generic"}
           THEN Walked(generic_child(State(nodes, lmod, mod_version), Top, t),
                       [stack EXCEPT ![Len(stack)].children = Append(@, t.name)])
           ELSE Read(yin_parse_content_child(State(nodes, lmod, mod_version), Top, t))

\* the loop of yin_parse_content() reads the closing tag of its element
EndElement ==
    /\ pc = "parsing"
    /\ Len(Top.children) > 0
    /\ tok' = EndTag
    /\ UNCHANGED <<consumed, alphabet, allocator>>
    /\ LET st == State(nodes, lmod, mod_version)
           Ended(e) ==
               IF e.ret # LY_SUCCESS
               THEN Step("done", e.ret, e.log, stack, e.st)
               ELSE Step(IF Len(stack) = 1 THEN "post_root" ELSE "parsing",
                         LY_SUCCESS, e.log, SubSeq(stack, 1, Len(stack) - 1), e.st)
       IN  IF Top.kw \in {YANG_CUSTOM, "generic"}
           THEN Ended(generic_end(st, Top))
           ELSE Ended(yin_parse_content_end(st, Top))

\* the check for trailing characters: the input ends after the root element
EndOfData ==
    /\ pc = "post_root"
    /\ tok' = EndOfInput
    /\ UNCHANGED <<consumed, alphabet, allocator>>
    /\ Step("done", LY_SUCCESS, <<>>, stack,
            [State(nodes, lmod, mod_version) EXCEPT !.lmod["mod->parsed"] = 1])

\* an element after the root element taken for the end of the input
trailing_accepted(t) ==
    /\ pc = "post_root"
    /\ tok' = t
    /\ UNCHANGED <<consumed, alphabet, allocator>>
    /\ Step("done", LY_SUCCESS, <<>>, stack,
            [State(nodes, lmod, mod_version) EXCEPT !.lmod["mod->parsed"] = 1])

\* the check for trailing characters: another element follows the root element
TrailingElement(t) ==
    /\ pc = "post_root"
    /\ tok' = t
    /\ UNCHANGED <<consumed, alphabet, allocator>>
    /\ Step("done", LY_EVALID, <<Entry("LY_VCODE_TRAILING_MOD", t.name)>>, stack,
            State(nodes, lmod, mod_version))

Next ==
    \/ \E t \in alphabet : ParseRoot(t)
    \/ \E t \in alphabet : Child(t)
    \/ EndElement
    \/ EndOfData
    \/ \E t \in alphabet : TrailingElement(t)

\* an allocator that serves every request, growing arrays in place
Enough == {[fails |-> "none", moves |-> FALSE]}

\* the state when yin_parse_module() is entered, the lexer's documents being
\* made of the elements of a, the allocator being one of m
InitWith(a, m) ==
    /\ pc = "start"
    /\ ret = LY_SUCCESS
    /\ log = <<>>
    /\ stack = <<>>
    /\ nodes = <<>>
    /\ lmod = [f \in LModFields |-> Default(f)]
    /\ mod_version = LYS_VERSION_UNDEF
    /\ tok = El("", "", <<>>, "none", <<>>)
    /\ consumed = 0
    /\ alphabet = a
    /\ allocator \in m
    /\ leaked = {}

\* elements of the YIN namespace
Yin(name, attrs, content) == El("yin", name, attrs, content, <<>>)
Arg(name, content) == <<Attr("", name, content)>>

\* documents of module-level statements
ModuleElements ==
    {Yin("module", Arg("name", <<"m">>), "elems"),
     Yin("yang-version", Arg("value", <<"1", ".", "0">>), "empty"),
     Yin("yang-version", Arg("value", <<"1", ".", "1">>), "empty"),
     Yin("namespace", Arg("uri", <<"u">>), "empty"),
     Yin("prefix", Arg("value", <<"p">>), "empty"),
     Yin("description", <<>>, "elems"),
     El("yin", "text", <<>>, "text", <<"t">>),
     Yin("import", Arg("module", <<"i">>), "elems"),
     Yin("anydata", Arg("name", <<"a">>), "empty"),
     Yin("container", Arg("name", <<"c">>), "elems"),
     El("other", "ext", <<>>, "empty", <<>>)}

Init == InitWith(ModuleElements, Enough)

Spec == Init /\ [][Next]_vars

\* documents of data definitions: leaf and leaf-list with their type, the
\* leaf-list and the when without their argument
DataElements ==
    {Yin("module", Arg("name", <<"m">>), "elems"),
     Yin("yang-version", Arg("value", <<"1", ".", "1">>), "empty"),
     Yin("namespace", Arg("uri", <<"u">>), "empty"),
     Yin("prefix", Arg("value", <<"p">>), "empty"),
     Yin("leaf", Arg("name", <<"l">>), "elems"),
     Yin("leaf-list", <<>>, "elems"),
     Yin("type", Arg("name", <<"t">>), "elems"),
     Yin("enum", Arg("name", <<"a">>), "empty"),
     Yin("bit", Arg("name", <<"a">>), "empty"),
     Yin("when", <<>>, "empty")}

SpecData == InitWith(DataElements, Enough) /\ [][Next]_vars

\* the strings of at most n characters of the set chars, the empty one excluded
RECURSIVE Strings(_, _)
Strings(chars, n) ==
    IF n = 0 THEN {}
    ELSE {<<c>> : c \in chars}
             \cup {<<c>> \o s : c \in chars, s \in Strings(chars, n - 1)}

\* documents of a module header whose prefix is any short string
IdentElements ==
    {Yin("module", Arg("name", <<"m">>), "elems"),
     Yin("yang-version", Arg("value", <<"1", ".", "1">>), "empty"),
     Yin("namespace", Arg("uri", <<"u">>), "empty")}
        \cup {Yin("prefix", Arg("value", v), "empty") :
                 v \in Strings({"a", "1", "-", "."}, MaxStrLen)}

SpecIdent == InitWith(IdentElements, Enough) /\ [][Next]_vars

\* the elements of the numeric arguments, the value being any short literal
NumericElements ==
    {Yin("module", Arg("name", <<"m">>), "elems"),
     Yin("yang-version", Arg("value", <<"1", ".", "1">>), "empty"),
     Yin("namespace", Arg("uri", <<"u">>), "empty"),
     Yin("prefix", Arg("value", <<"p">>), "empty"),
     Yin("leaf-list", Arg("name", <<"l">>), "elems"),
     Yin("type", Arg("name", <<"t">>), "elems"),
     Yin("enum", Arg("name", <<"a">>), "elems"),
     Yin("bit", Arg("name", <<"a">>), "elems")}
        \cup {Yin(n, Arg("value", v), "empty") :
                 n \in {"value", "position"},
                 v \in Strings({"0", "1", "-"}, MaxStrLen) \cup {<<"+", "1">>}}
        \cup {Yin(n, Arg("value", v), "empty") :
                 n \in {"fraction-digits", "min-elements", "max-elements"},
                 v \in {<<"+", "1">>, <<"1">>}}

SpecNum == InitWith(NumericElements, Enough) /\ [][Next]_vars

\* documents of a leaf whose type has patterns with modifiers
PatternElements ==
    {Yin("module", Arg("name", <<"m">>), "elems"),
     Yin("yang-version", Arg("value", <<"1", ".", "1">>), "empty"),
     Yin("namespace", Arg("uri", <<"u">>), "empty"),
     Yin("prefix", Arg("value", <<"p">>), "empty"),
     Yin("leaf", Arg("name", <<"l">>), "elems"),
     Yin("type", Arg("name", <<"t">>), "elems"),
     Yin("pattern", Arg("value", <<"x">>), "elems"),
     Yin("pattern", Arg("value", <<>>), "elems"),
     Yin("pattern", Arg("value", <<"y", "z">>), "empty"),
     Yin("modifier", Arg("value", <<"i", "n", "v", "e", "r", "t", "-", "m", "a", "t", "c", "h">>),
         "empty"),
     Yin("modifier", Arg("value", <<"m", "a", "t", "c", "h">>), "empty"),
     Yin("description", <<>>, "elems"),
     El("yin", "text", <<>>, "text", <<"t">>)}

SpecPattern == InitWith(PatternElements, Enough) /\ [][Next]_vars

\* documents of leaf-lists and lists with their limits and defaults
LimitElements ==
    {Yin("module", Arg("name", <<"m">>), "elems"),
     Yin("yang-version", Arg("value", <<"1", ".", "1">>), "empty"),
     Yin("namespace", Arg("uri", <<"u">>), "empty"),
     Yin("prefix", Arg("value", <<"p">>), "empty"),
     Yin("leaf-list", Arg("name", <<"l">>), "elems"),
     Yin("list", Arg("name", <<"k">>), "elems"),
     Yin("type", Arg("name", <<"t">>), "empty"),
     Yin("default", Arg("value", <<"d">>), "empty"),
     Yin("max-elements", Arg("value", <<"u", "n", "b", "o", "u", "n", "d", "e", "d">>),
         "empty")}
        \cup {Yin("min-elements", Arg("value", <<v>>), "empty") : v \in {"0", "2"}}
        \cup {Yin("max-elements", Arg("value", <<v>>), "empty") : v \in {"1", "2"}}

SpecLimits == InitWith(LimitElements, Enough) /\ [][Next]_vars

\* documents of deviations: every value of deviate with children of the shapes
DeviateElements ==
    {Yin("module", Arg("name", <<"m">>), "elems"),
     Yin("yang-version", Arg("value", <<"1", ".", "1">>), "empty"),
     Yin("namespace", Arg("uri", <<"u">>), "empty"),
     Yin("prefix", Arg("value", <<"p">>), "empty"),
     Yin("deviation", Arg("target-node", <<"/", "a">>), "elems"),
     Yin("mandatory", Arg("value", <<"t", "r", "u", "e">>), "empty"),
     Yin("units", Arg("name", <<"s">>), "empty"),
     Yin("type", Arg("name", <<"t">>), "empty")}
    \cup {Yin("deviate", Arg("value", v), "elems") :
             v \in {<<"n", "o", "t", "-", "s", "u", "p", "p", "o", "r", "t", "e", "d">>,
                    <<"a", "d", "d">>, <<"r", "e", "p", "l", "a", "c", "e">>,
                    <<"d", "e", "l", "e", "t", "e">>, <<"a", "d">>}}

SpecDeviate == InitWith(DeviateElements, Enough) /\ [][Next]_vars

\* documents of module-level statements, with an allocator that may return
\* NULL for the parser context or for the module structure
\* documents of groupings, with an allocator that either moves every array
\* it grows or none
TreeElements ==
    {Yin("module", Arg("name", <<"m">>), "elems"),
     Yin("yang-version", Arg("value", <<"1", ".", "1">>), "empty"),
     Yin("namespace", Arg("uri", <<"u">>), "empty"),
     Yin("prefix", Arg("value", <<"p">>), "empty"),
     Yin("grouping", Arg("name", <<"g">>), "elems"),
     Yin("grouping", Arg("name", <<"h">>), "empty"),
     Yin("container", Arg("name", <<"c">>), "elems"),
     Yin("anyxml", Arg("name", <<"a">>), "empty")}

SpecTree ==
    /\ InitWith(TreeElements, {[fails |-> "none", moves |-> b] : b \in BOOLEAN})
    /\ [][Next]_vars

\* documents of descriptions whose child has a local name that is a keyword,
\* "text", or a part or an extension of one of them, and of statements that
\* carry attributes with a prefix
KeywordElements ==
    {Yin("module", Arg("name", <<"m">>), "elems"),
     Yin("yang-version", Arg("value", <<"1", ".", "1">>), "empty"),
     Yin("namespace", Arg("uri", <<"u">>), "empty"),
     Yin("prefix", Arg("value", <<"p">>), "empty"),
     Yin("description", <<>>, "elems")}
    \cup {El("yin", n, Arg("value", <<"p">>), "text", <<"d">>) :
             n \in {"text", "t", "te", "tex", "textx", "prefi", "prefix", "prefixx"}}
    \cup {Yin("module", <<Attr("x", "name", <<"n">>)>> \o Arg("name", <<"m">>), "elems"),
          Yin("prefix", <<Attr("x", "value", <<"q">>)>>, "empty"),
          Yin("prefix", <<Attr("x", "value", <<"q">>)>> \o Arg("value", <<"p">>), "empty"),
          Yin("namespace", Arg("uri", <<"u">>) \o <<Attr("x", "uri", <<"%">>)>>, "empty"),
          Yin("description", <<Attr("x", "y", <<"q">>)>>, "elems")}

SpecKeyword == InitWith(KeywordElements, Enough) /\ [][Next]_vars

\* documents with elements of another namespace, with and without a
\* prefix, attributes, text and child elements
ExtElements ==
    {Yin("module", Arg("name", <<"m">>), "elems"),
     Yin("yang-version", Arg("value", <<"1", ".", "1">>), "empty"),
     Yin("namespace", Arg("uri", <<"u">>), "empty"),
     Yin("prefix", Arg("value", <<"p">>), "empty"),
     Yin("container", Arg("name", <<"c">>), "elems"),
     Yin("if-feature", Arg("name", <<"f">>), "elems"),
     Ext("e", "a", <<Attr("", "x", <<"1">>), Attr("p", "y", <<"2">>),
                     Attr("", "z", <<"3">>)>>, "elems", <<>>),
     Ext("e", "b", <<>>, "text", <<"t">>),
     Ext("e", "b", <<>>, "elems", <<>>),
     Ext("", "c", Arg("x", <<"1">>), "text", <<"t">>)}

SpecExt == InitWith(ExtElements, Enough) /\ [][Next]_vars

\* documents of a leaf whose type has restrictions and nested types
TypeElements ==
    {Yin("module", Arg("name", <<"m">>), "elems"),
     Yin("yang-version", Arg("value", <<"1", ".", "1">>), "empty"),
     Yin("namespace", Arg("uri", <<"u">>), "empty"),
     Yin("prefix", Arg("value", <<"p">>), "empty"),
     Yin("leaf", Arg("name", <<"l">>), "elems"),
     Yin("type", Arg("name", <<"t">>), "elems"),
     Yin("type", Arg("name", <<"u">>), "empty"),
     Yin("range", Arg("value", <<"0", " ", ".", ".", " ", "9">>), "empty"),
     Yin("length", Arg("value", <<"1", ".", ".", "4">>), "elems"),
     Yin("pattern", Arg("value", <<"x">>), "empty"),
     Yin("enum", Arg("name", <<"a">>), "empty"),
     Yin("bit", Arg("name", <<"b">>), "empty"),
     Yin("fraction-digits", Arg("value", <<"2">>), "empty"),
     El("other", "ext", <<>>, "empty", <<>>)}

SpecType == InitWith(TypeElements, Enough) /\ [][Next]_vars

\* documents of the children that only some parents may have: base,
\* min-elements, max-elements and modifier
DispatchElements ==
    {Yin("module", Arg("name", <<"m">>), "elems"),
     Yin("yang-version", Arg("value", <<"1", ".", "1">>), "empty"),
     Yin("namespace", Arg("uri", <<"u">>), "empty"),
     Yin("prefix", Arg("value", <<"p">>), "empty"),
     Yin("leaf-list", Arg("name", <<"l">>), "elems"),
     Yin("list", Arg("name", <<"k">>), "elems"),
     Yin("type", Arg("name", <<"t">>), "elems"),
     Yin("base", Arg("name", <<"b">>), "empty"),
     Yin("pattern", Arg("value", <<"x">>), "elems"),
     Yin("modifier", Arg("value", <<"i", "n", "v", "e", "r", "t", "-", "m", "a", "t", "c", "h">>),
         "empty"),
     Yin("units", Arg("name", <<"s">>), "empty"),
     Yin("min-elements", Arg("value", <<"2">>), "empty"),
     Yin("max-elements", Arg("value", <<"3">>), "empty"),
     Yin("deviation", Arg("target-node", <<"/", "a">>), "elems"),
     Yin("deviate", Arg("value", <<"a", "d", "d">>), "elems")}

SpecDispatch == InitWith(DispatchElements, Enough) /\ [][Next]_vars

SpecAlloc ==
    /\ InitWith(ModuleElements,
                {[fails |-> f, moves |-> FALSE] : f \in {"none", "yin_ctx", "mod_p"}})
    /\ [][Next]_vars

(***************************************************************************)
(* Properties.                                                             *)
(***************************************************************************)
\* the number of occurrences of x in the sequence s
Count(s, x) == Cardinality({i \in 1..Len(s) : s[i] = x})

\* the code of the last error logged, "" when there is none
LastCode == IF log = <<>> THEN "" ELSE log[Len(log)].code

\* tok is an element, read as a child by the loop of the top frame
ChildRead ==
    /\ tok.content \in {"empty", "text", "elems"}
    /\ stack # <<>>
    /\ Top.children # <<>>

\* the flags of the table entry of kw in the frame, {} when it has none
FlagsOf(frame, kw) ==
    UNION {frame.subelems[i].flags : i \in {j \in 1..Len(frame.subelems) :
                                               frame.subelems[j].type = kw}}

\* the phase of a keyword as a number, header first
Phase(kw) == CHOOSE i \in 1..Len(yang_module_stmt) : yang_module_stmt[i] = kw2kw_group(kw)

\* the child just read is a second occurrence of a Unique child of its parent
SecondOccurrence ==
    /\ ChildRead
    /\ YIN_SUBELEM_UNIQUE \in FlagsOf(Top, Top.kwv)
    /\ Count(Top.children, Top.kwv) >= 2

\* the child just read has, under module, a lower phase than the one before it
PhaseDrop ==
    /\ ChildRead
    /\ Top.kw \in {"module", "submodule"}
    /\ Len(Top.children) >= 2
    /\ \E i \in 1..Len(Top.subelems) : Top.subelems[i].type = Top.kwv
    /\ Phase(Top.kwv) < Phase(Top.children[Len(Top.children) - 1])

\* C1 as stated: the second occurrence of a Unique child under the same parent
\* fails the parse with DuplicateChild, under any parent.
C1_DuplicateAlways ==
    SecondOccurrence =>
        pc = "done" /\ ret = LY_EVALID /\ LastCode = "LY_VCODE_SUBELEM_REDEF"

\* C1, amended: the second occurrence of a Unique child under the same parent
\* fails the parse, with DuplicateChild unless the parent is module or
\* submodule and the child's phase is lower than that of the child before it,
\* where the relative-order check, which comes first, fails it with
\* OrderingViolation; while no error has occurred every parent has read each
\* of its Unique children at most once.
C1_Unique ==
    /\ SecondOccurrence =>
          /\ pc = "done"
          /\ ret = LY_EVALID
          /\ LastCode = IF PhaseDrop THEN "LY_VCODE_INORDER_YIN"
                        ELSE "LY_VCODE_SUBELEM_REDEF"
    /\ ret = LY_SUCCESS =>
          \A k \in 1..Len(stack) : \A i \in 1..Len(stack[k].subelems) :
              YIN_SUBELEM_UNIQUE \in stack[k].subelems[i].flags =>
                  Count(stack[k].children, stack[k].subelems[i].type) <= 1

\* a second description under a parent other than module is refused as a duplicate
C1_Witness ==
    /\ SecondOccurrence
    /\ Top.kw # "module"
    /\ LastCode = "LY_VCODE_SUBELEM_REDEF"

\* the keywords the root element has read as children
RootChildren == stack[1].children

\* C2: when yin_parse_module succeeds the module element contained exactly
\* one yang-version, one namespace and one prefix child; when one of them is
\* absent as the module element closes, the parse fails with MissingChild
\* naming an absent child.
C2_Mandatory ==
    /\ [][/\ pc' = "post_root" =>
                /\ pc = "parsing" /\ Len(stack) = 1
                /\ \A k \in {"yang-version", "namespace", "prefix"} :
                       Count(RootChildren, k) = 1
          /\ (pc = "parsing" /\ Len(stack) = 1 /\ tok' = EndTag) =>
                LET absent == {k \in {"yang-version", "namespace", "prefix"} :
                                  Count(RootChildren, k) = 0}
                IN  IF absent = {} THEN pc' = "post_root"
                    ELSE /\ pc' = "done"
                         /\ ret' = LY_EVALID
                         /\ log'[Len(log')].code = "LY_VCODE_MAND_SUBELEM"
                         /\ log'[Len(log')].arg \in absent
          /\ (pc' = "done" /\ ret' = LY_SUCCESS) => pc = "post_root"]_vars
    /\ [](pc \in {"post_root", "done"} /\ ret = LY_SUCCESS =>
             /\ lmod["mod->version"] # LYS_VERSION_UNDEF
             /\ lmod["mod->ns"] # NULL
             /\ lmod["mod->prefix"] # NULL)

\* yin_parse_module has returned success
C2_Witness == pc = "done" /\ ret = LY_SUCCESS /\ lmod["mod->parsed"] # 0

\* C3: while a module is parsed without error the phases of the children
\* read so far are non-decreasing in source order; a child whose phase is
\* lower than that of the child before it fails the parse with
\* OrderingViolation.
C3_Order ==
    /\ (pc = "parsing" /\ stack[1].kw = "module") =>
          \A i, j \in 1..Len(RootChildren) :
              i < j => Phase(RootChildren[i]) <= Phase(RootChildren[j])
    /\ PhaseDrop =>
          pc = "done" /\ ret = LY_EVALID /\ LastCode = "LY_VCODE_INORDER_YIN"

\* an import read after a description is refused
C3_Witness ==
    /\ PhaseDrop
    /\ Top.kwv = "import"
    /\ Top.children[Len(Top.children) - 1] = "description"
    /\ LastCode = "LY_VCODE_INORDER_YIN"

\* C4: while no error has occurred, a First-flagged child that a parent has
\* read is the first child the parent read; when it is read for the first
\* time after any other child, an extension instance included, the parse
\* fails with FirstViolation.
C4_First ==
    /\ ret = LY_SUCCESS =>
          \A k \in 1..Len(stack) : \A c \in 1..Len(stack[k].children) :
              YIN_SUBELEM_FIRST \in FlagsOf(stack[k], stack[k].children[c]) =>
                  stack[k].children[1] = stack[k].children[c]
    /\ (/\ ChildRead
        /\ YIN_SUBELEM_FIRST \in FlagsOf(Top, Top.kwv)
        /\ Count(Top.children, Top.kwv) = 1
        /\ Len(Top.children) >= 2) =>
          pc = "done" /\ ret = LY_EVALID /\ LastCode = "LY_VCODE_FIRT_SUBELEM"

\* the text child of a description read after an extension instance is refused
C4_Witness ==
    /\ ChildRead
    /\ Top.kw = "description"
    /\ Top.children = <<"CUSTOM", "YIN_TEXT">>
    /\ LastCode = "LY_VCODE_FIRT_SUBELEM"

\* C5: with yang-version 1.0 declared, a child whose table entry is flagged
\* Version2 fails the parse with VersionTooLow and no parent has read one
\* without error; with yang-version 1.1 the version check lets it pass.
C5_Version ==
    /\ (ChildRead /\ YIN_SUBELEM_VER2 \in FlagsOf(Top, Top.kwv)) =>
          IF mod_version = LYS_VERSION_1_0
          THEN pc = "done" /\ ret = LY_EVALID /\ LastCode = "LY_VCODE_INSUBELEM2"
          ELSE mod_version = LYS_VERSION_1_1 => LastCode # "LY_VCODE_INSUBELEM2"
    /\ (ret = LY_SUCCESS /\ mod_version = LYS_VERSION_1_0) =>
          \A k \in 1..Len(stack) : \A c \in 1..Len(stack[k].children) :
              YIN_SUBELEM_VER2 \notin FlagsOf(stack[k], stack[k].children[c])

\* an anydata inside a container of a 1.0 module is refused
C5_Witness ==
    /\ ChildRead
    /\ Top.kw = "container"
    /\ Top.kwv = "anydata"
    /\ mod_version = LYS_VERSION_1_0
    /\ LastCode = "LY_VCODE_INSUBELEM2"

\* the codes of the errors logged so far
Codes == {log[i].code : i \in 1..Len(log)}

\* C6: parsing is fail-fast: once an error has been detected the parse has
\* ended without success, no further child being read.
C6_FailFast == log # <<>> => (pc = "done" /\ ret # LY_SUCCESS)

\* C7: an element whose non-optional argument attribute is missing fails
\* the whole parse with MissingAttribute.
C7_MissingAttribute ==
    "LYVE_SYNTAX_YIN_MISSING_ATTR" \in Codes =>
        /\ pc = "done"
        /\ ret = LY_EVALID
        /\ LastCode = "LYVE_SYNTAX_YIN_MISSING_ATTR"

\* the prefix element just read as the first prefix child of the module
PrefixRead ==
    /\ ChildRead
    /\ Top.kw = "module"
    /\ Top.kwv = "prefix"
    /\ tok.name = "prefix"
    /\ Count(Top.children, "prefix") = 1
    /\ tok.attrs # <<>>

\* C8: an identifier whose first character is a digit, '-' or '.' is
\* rejected with InvalidCharacter.
C8_FirstCharacter ==
    (PrefixRead /\ tok.attrs[1].content[1] \in Digits \cup {"-", "."}) =>
        /\ pc = "done"
        /\ ret = LY_EVALID
        /\ LastCode \in {"LYVE_SYNTAX_YANG_IDENT", "LY_VCODE_INCHAR"}

\* the prefixes of the imports of the module, in source order
ImportPrefixes ==
    IF nodes = <<>> THEN <<>>
    ELSE [i \in 1..Len(nodes[1]["imports"]) |-> nodes[nodes[1]["imports"][i]]["prefix"]]

\* C9: after a successful module parse the import prefixes differ pairwise and
\* none equals the module's own prefix.
C9_PrefixesDiffer ==
    (pc = "done" /\ ret = LY_SUCCESS) =>
        /\ \A i, j \in 1..Len(ImportPrefixes) :
               i # j => ImportPrefixes[i] # ImportPrefixes[j]
        /\ \A i \in 1..Len(ImportPrefixes) : ImportPrefixes[i] # lmod["mod->prefix"]

\* the names of the items of the array of a node
Names(n, array) == [i \in 1..Len(nodes[n][array]) |-> nodes[nodes[n][array][i]]["name"]]

\* no name occurs twice in the sequence
Distinct(s) == \A i, j \in 1..Len(s) : i # j => s[i] # s[j]

\* C10: within one type no two enums carry the same name and no two bits
\* carry the same name; the duplicate fails the parse.
C10_UniqueNames ==
    ret = LY_SUCCESS =>
        \A n \in 1..Len(nodes) :
            nodes[n]["kw"] = "type" =>
                Distinct(Names(n, "enums")) /\ Distinct(Names(n, "bits"))

\* the element just read as a child is the first child named n of its parent,
\* a statement p, and carries an attribute
ArgumentRead(p, n) ==
    /\ ChildRead
    /\ Top.kw = p
    /\ Top.kwv = n
    /\ tok.name = n
    /\ Count(Top.children, n) = 1
    /\ tok.attrs # <<>>

\* the literal of the element just read
Literal == tok.attrs[1].content

\* a digit string without leading zeros, "0" itself included
NoLeadingZeros(v) ==
    /\ v # <<>>
    /\ \A i \in 1..Len(v) : v[i] \in Digits
    /\ (v[1] = "0" => Len(v) = 1)

\* the decimal value of a digit string
RECURSIVE Decimal(_)
Decimal(v) ==
    IF v = <<>> THEN 0
    ELSE 10 * Decimal(SubSeq(v, 1, Len(v) - 1))
             + (CHOOSE d \in 0..9 : ToString(d) = v[Len(v)])

\* C11: an enum value is accepted only when it is an optional '-' and a digit
\* string without leading zeros, a bit position only when it is a digit
\* string without leading zeros; the integer stored is the decimal value of
\* the literal.
C11_NumericLiterals ==
    /\ (ArgumentRead("enum", "value") /\ ret = LY_SUCCESS) =>
          IF Literal[1] = "-"
          THEN /\ NoLeadingZeros(Tail(Literal))
               /\ nodes[Top.node]["value"] = -Decimal(Tail(Literal))
          ELSE /\ NoLeadingZeros(Literal)
               /\ nodes[Top.node]["value"] = Decimal(Literal)
    /\ (ArgumentRead("bit", "position") /\ ret = LY_SUCCESS) =>
          /\ NoLeadingZeros(Literal)
          /\ nodes[Top.node]["value"] = Decimal(Literal)

\* C12: each of the five numeric arguments rejects a literal that begins
\* with '+'.
C12_LeadingPlus ==
    \A p \in {"enum", "bit", "type", "leaf-list"} :
        \A n \in {"value", "position", "fraction-digits", "min-elements", "max-elements"} :
            (ArgumentRead(p, n) /\ Literal # <<>> /\ Literal[1] = "+") =>
                pc = "done" /\ ret = LY_EVALID

\* the nodes that are pattern restrictions
Patterns == {n \in 1..Len(nodes) : nodes[n]["kw"] = "pattern"}

InvertMatch == <<"i", "n", "v", "e", "r", "t", "-", "m", "a", "t", "c", "h">>

\* C13: the argument of a pattern is stored as the byte 0x06 followed by the
\* raw value; a modifier child with the value invert-match replaces the first
\* byte by 0x15 and nothing else does; a modifier with another value fails
\* the parse with InvalidEnum and a second modifier fails as a duplicate.
C13_PatternSentinel ==
    /\ [][/\ \A n \in 1..Len(nodes') :
                (nodes'[n]["kw"] = "pattern" /\ ret' = LY_SUCCESS) =>
                    IF n > Len(nodes)
                    THEN nodes'[n]["arg"] = <<ACK>> \o tok'.attrs[1].content
                    ELSE IF /\ tok'.name = "modifier"
                            /\ pc = "parsing" /\ Top.kw = "pattern" /\ Top.node = n
                    THEN nodes'[n]["arg"] = <<NAK>> \o Tail(nodes[n]["arg"])
                    ELSE nodes'[n]["arg"] = nodes[n]["arg"]]_vars
    /\ [](\A k \in 1..Len(stack) :
             (stack[k].kw = "pattern" /\ ret = LY_SUCCESS) =>
                 /\ nodes[stack[k].node]["arg"][1] \in {ACK, NAK}
                 /\ nodes[stack[k].node]["arg"][1] = NAK
                        <=> Count(stack[k].children, "modifier") > 0)
    /\ []((ArgumentRead("pattern", "modifier") /\ Literal # InvertMatch) =>
             pc = "done" /\ ret = LY_EVALID /\ LastCode = "LY_VCODE_INVAL_YIN")
    /\ []((ChildRead /\ Top.kw = "pattern" /\ Count(Top.children, "modifier") > 1) =>
             pc = "done" /\ ret = LY_EVALID /\ LastCode = "LY_VCODE_SUBELEM_REDEF")

\* a pattern with an invert-match modifier has been parsed and closed
C13_Witness ==
    /\ ret = LY_SUCCESS
    /\ \E n \in Patterns :
           /\ nodes[n]["arg"] = <<NAK, "x">>
           /\ \A k \in 1..Len(stack) : stack[k].node # n

\* the nodes of the statement kw whose element has been closed
Closed(kw) ==
    {n \in 1..Len(nodes) :
        nodes[n]["kw"] = kw /\ \A k \in 1..Len(stack) : stack[k].node # n}

\* C14: while no error has occurred, every leaf-list whose element is closed
\* has min-elements 0 or no default, and min <= max when a numeric
\* max-elements was given; every closed list has min <= max likewise.  The
\* children are read in every order.
C14_Limits ==
    ret = LY_SUCCESS =>
        /\ \A n \in Closed("leaf-list") :
               /\ nodes[n]["min"] = 0 \/ nodes[n]["dflts"] = <<>>
               /\ nodes[n]["max"] # 0 => nodes[n]["min"] <= nodes[n]["max"]
        /\ \A n \in Closed("list") :
               nodes[n]["max"] # 0 => nodes[n]["min"] <= nodes[n]["max"]

\* a leaf-list with min-elements 2 and max-elements 2 has been parsed
C14_Witness ==
    /\ ret = LY_SUCCESS
    /\ \E n \in Closed("leaf-list") : nodes[n]["min"] = 2 /\ nodes[n]["max"] = 2

\* the children of each shape of deviate (RFC 7950, section 7.20.3.2)
LegalFor(dev_mod) ==
    CASE dev_mod = LYS_DEV_NOT_SUPPORTED -> {}
      [] dev_mod = LYS_DEV_ADD ->
           {"config", "default", "mandatory", "max-elements", "min-elements", "must",
            "unique", "units"}
      [] dev_mod = LYS_DEV_REPLACE ->
           {"config", "default", "mandatory", "max-elements", "min-elements", "type",
            "units"}
      [] dev_mod = LYS_DEV_DELETE -> {"default", "must", "unique", "units"}

Shapes == {LYS_DEV_NOT_SUPPORTED, LYS_DEV_ADD, LYS_DEV_REPLACE, LYS_DEV_DELETE}

\* the codes of the errors the step logs
NewCodes == {log'[i].code : i \in (Len(log) + 1)..Len(log')}

\* the step reads a child element of the element of keyword p
ReadsChildOf(p) == pc = "parsing" /\ consumed' = consumed + 1 /\ Top.kw = p

\* C15: under a deviate of one of the four values, a child legal for its shape
\* is dispatched to its handler, a child legal only for another shape fails
\* the parse with InvalidDeviateSubstatement, a child legal for no shape fails
\* it with UnexpectedChild; a deviate of any other value fails the parse
\* before a child of it is read.
C15_DeviateShapes ==
    [][/\ ReadsChildOf("deviate") =>
            LET kw == tok'.name
                V == Top.dev_mod
            IN  /\ V \in Shapes
                /\ (kw \in LegalFor(V) /\ Count(Top.children, kw) = 0) =>
                      /\ pc' = "parsing"
                      /\ ret' = LY_SUCCESS
                      /\ stack'[Len(stack)].kwv = kw
                      /\ nodes'[Top.node] # nodes[Top.node]
                /\ kw \in LegalFor(V) => NewCodes \cap {"LY_VCODE_INDEV_YIN",
                                                        "LY_VCODE_UNEXP_SUBELEM"} = {}
                /\ (kw \notin LegalFor(V) /\ \E W \in Shapes : kw \in LegalFor(W)) =>
                      /\ pc' = "done"
                      /\ ret' = LY_EVALID
                      /\ NewCodes = {"LY_VCODE_INDEV_YIN"}
                      /\ nodes' = nodes
                /\ (\A W \in Shapes : kw \notin LegalFor(W)) =>
                      /\ pc' = "done"
                      /\ ret' = LY_EVALID
                      /\ NewCodes = {"LY_VCODE_UNEXP_SUBELEM"}
                      /\ nodes' = nodes
       /\ (ReadsChildOf("deviation") /\ tok'.name = "deviate") =>
            IF deviate_value(tok'.attrs[1].content) \in Shapes
            THEN /\ pc' = "parsing"
                 /\ stack'[Len(stack')].kw = "deviate"
                 /\ stack'[Len(stack')].dev_mod = deviate_value(tok'.attrs[1].content)
            ELSE /\ pc' = "done"
                 /\ ret' = LY_EVALID
                 /\ NewCodes = {"LY_VCODE_INVAL_YIN"}
                 /\ stack'[Len(stack')].kw = "deviation"]_vars

\* mandatory under a deviate of value delete is refused as a substatement of
\* another shape
C15_Witness ==
    /\ pc = "done"
    /\ LastCode = "LY_VCODE_INDEV_YIN"
    /\ tok.name = "mandatory"
    /\ Top.kw = "deviate"
    /\ Top.dev_mod = LYS_DEV_DELETE

\* the step reads the header child `name` of the module without an error
HeaderRead(name) == ReadsChildOf("module") /\ tok'.name = name /\ pc' = "parsing"

\* C16: once the root element is closed, yin_parse_module returns success
\* exactly when the end of the input follows and fails with TrailingGarbage
\* when another element follows; a module of exactly one yang-version 1.1,
\* one namespace and one prefix is parsed with that version, namespace and
\* prefix and without any body child.
C16_AfterRoot ==
    [][/\ pc = "post_root" =>
            /\ pc' = "done"
            /\ nodes' = nodes
            /\ IF tok' = EndOfInput
               THEN ret' = LY_SUCCESS /\ log' = log /\ lmod'["mod->parsed"] = 1
               ELSE /\ ret' = LY_EVALID
                    /\ NewCodes = {"LY_VCODE_TRAILING_MOD"}
                    /\ lmod'["mod->parsed"] = 0
       /\ (pc' = "done" /\ ret' = LY_SUCCESS) => (pc = "post_root" /\ tok' = EndOfInput)
       /\ HeaderRead("yang-version") =>
            lmod'["mod->version"] =
                (IF tok'.attrs[1].content = <<"1", ".", "1">>
                 THEN LYS_VERSION_1_1 ELSE LYS_VERSION_1_0)
       /\ HeaderRead("namespace") => lmod'["mod->ns"] = tok'.attrs[1].content
       /\ HeaderRead("prefix") => lmod'["mod->prefix"] = tok'.attrs[1].content
       /\ \A name \in {"yang-version", "namespace", "prefix"} :
            LET field == CASE name = "yang-version" -> "mod->version"
                           [] name = "namespace" -> "mod->ns"
                           [] OTHER -> "mod->prefix"
            IN  lmod'[field] # lmod[field] => HeaderRead(name)
       /\ (/\ pc = "parsing" /\ Len(stack) = 1 /\ tok' = EndTag
           /\ Len(RootChildren) = 3
           /\ \A k \in {"yang-version", "namespace", "prefix"} : Count(RootChildren, k) = 1) =>
            /\ pc' = "post_root"
            /\ \A f \in FieldsOf("module") : nodes'[1][f] = <<>>]_vars

\* the module of yang-version 1.1, namespace and prefix alone has been parsed
C16_Witness ==
    /\ pc = "done"
    /\ ret = LY_SUCCESS
    /\ tok = EndOfInput
    /\ consumed = 4
    /\ lmod["mod->version"] = LYS_VERSION_1_1
    /\ lmod["mod->ns"] = <<"u">>
    /\ lmod["mod->prefix"] = <<"p">>
    /\ Len(nodes) = 1

\* C17: when an allocation fails during the parse, yin_parse_module returns
\* the out-of-memory error, never success, and no parsed tree is attached to
\* the caller's module.
C17_OutOfMemory ==
    (pc = "done" /\ "LOGMEM" \in Codes) => (ret = LY_EMEM /\ lmod["mod->parsed"] = 0)

\* the nodes that have a parent pointer: the data nodes and the groupings
WithParent ==
    {n \in 1..Len(nodes) :
        nodes[n]["kw"] \in {"container", "list", "leaf", "leaf-list", "anydata", "anyxml",
                            "grouping"}}

\* the node p holds the node n in one of its collections
Holds(p, n) ==
    \E f \in DOMAIN nodes[p] \cap {"data", "child", "groupings"} :
        \E i \in 1..Len(nodes[p][f]) : nodes[p][f][i] = n

\* C18: after a successful parse the parent pointer of every node designates
\* the node that holds it, at the place where that node is now, also when the
\* array that stores the parent was moved by a later append.
C18_ParentsValid ==
    (pc = "done" /\ ret = LY_SUCCESS) =>
        \A n \in WithParent :
            nodes[n]["parent"] # 0 =>
                /\ Holds(nodes[n]["parent"], n)
                /\ nodes[n]["parent_addr"] = nodes[nodes[n]["parent"]]["addr"]

\* C19: when the parse fails, everything it allocated has been released by
\* the time yin_parse_module returns: the nodes and extension instances with
\* the root or with the structure that owns them, the attribute arrays by
\* the dispatcher that loaded them.
C19_AllReleased == (pc = "done" /\ ret # LY_SUCCESS) => leaked = {}

\* the structures the root holds, directly or through what it holds
FromRoot == lysp_module_free(State(nodes, lmod, mod_version), {1}, Len(nodes))

OpenDeviates == {stack[i].node : i \in {j \in 1..Len(stack) : stack[j].kw = "deviate"}}

C21_ExactNames ==
    [][(pc = "parsing" /\ consumed' = consumed + 1 /\ tok'.ns = "yin") =>
          LET kw == stack'[Len(stack)].kwv
          IN  /\ kw = YIN_TEXT <=> tok'.name = "text"
              /\ kw = YIN_VALUE <=> (tok'.name = "value" /\ Top.kw = "error-message")
              /\ kw \notin {YIN_TEXT, YIN_VALUE, YANG_NONE} => kw = tok'.name
              /\ tok'.name \notin StatementNames \cup {"text"} => kw = YANG_NONE]_vars

\* the element t without its prefixed attributes
Unprefixed(t) == [t EXCEPT !.attrs = SelectSeq(@, LAMBDA a : a.prefix = "")]

\* C22: the prefixed attributes of an element of the YIN namespace have no
\* influence: the root element and every child are handled exactly as the
\* same element without its prefixed attributes, with the same return code,
\* messages and tree, so a prefixed attribute named as the argument neither
\* gives the argument nor makes it a duplicate.
C22_PrefixedIgnored ==
    [][/\ (pc = "parsing" /\ consumed' = consumed + 1 /\ tok'.ns = "yin") =>
            LET Same(st) == yin_parse_content_child(st, Top, tok')
                                = yin_parse_content_child(st, Top, Unprefixed(tok'))
            IN  Same(State(nodes, lmod, mod_version))
       /\ (pc = "start" /\ consumed' = 1 /\ tok'.name = "module") =>
            LET Same(st) == yin_parse_mod(st, tok'.attrs, 1)
                                = yin_parse_mod(st, Unprefixed(tok').attrs, 1)
            IN  Same(State(<<NewNode("module", 0)>>, lmod, mod_version))]_vars

\* a prefix statement whose prefixed attribute is named as its argument has
\* been read and has taken the value of its unprefixed attribute
C22_Witness ==
    /\ pc = "parsing"
    /\ tok.name = "prefix"
    /\ Len(tok.attrs) = 2
    /\ tok.attrs[1].prefix = "x"
    /\ Top.kw = "module"
    /\ lmod["mod->prefix"] = <<"p">>
    /\ log = <<>>

\* the keywords of the data nodes
DataNodes ==
    {"anydata", "anyxml", "case", "choice", "container", "leaf", "leaf-list", "list",
     "uses"}

\* the kinds of the items of the list `dest` of node n
Kinds(n, dest) == [i \in 1..Len(nodes[n][dest]) |-> nodes[nodes[n][dest][i]]["kw"]]

\* the sibling list the data nodes of the element of frame f are linked into
Siblings(f) == IF "child" \in DOMAIN nodes[f.node] THEN "child" ELSE "data"

Statements(ns, n) ==
    [i \in 1..Len(ns[n]["child"]) |->
        [stmt |-> ns[ns[n]["child"][i]]["stmt"],
         arg |-> ns[ns[n]["child"][i]]["arg"],
         attr |-> LYS_YIN_ATTR \in ns[ns[n]["child"][i]]["flags"]]]

\* C24: an element of another namespace read as the child of a YIN statement
\* appends one extension instance to the extension list of the statement,
\* with the full name of the element, the slot of the statement and the
\* index of the statement instance; its unprefixed attributes, in their
\* order, are its first children, named after the attribute, with its value
\* and flagged as attributes; a prefixed attribute gives no child.
C24_ExtensionInstance ==
    /\ [][(/\ pc = "parsing"
           /\ consumed' = consumed + 1
           /\ Top.kw \notin {YANG_CUSTOM, "generic"}
           /\ tok'.ns = "other") =>
             LET e == Len(nodes) + 1
                 unprefixed == SelectSeq(tok'.attrs, LAMBDA a : a.prefix = "")
             IN  /\ pc' = "parsing"
                 /\ log' = log
                 /\ nodes'[Top.exts]["exts"] = Append(nodes[Top.exts]["exts"], e)
                 /\ nodes'[e]["name"] = IF tok'.prefix = "" THEN tok'.name
                                         ELSE tok'.prefix \o ":" \o tok'.name
                 /\ nodes'[e]["insubstmt"] = IF Top.kw = "if-feature" THEN "if-feature"
                                              ELSE "SELF"
                 /\ nodes'[e]["insubstmt_index"] =
                        IF Top.kw = "if-feature"
                        THEN Len(nodes[Top.node]["iffeatures"]) - 1 ELSE 0
                 /\ Statements(nodes', e) =
                        [i \in 1..Len(unprefixed) |->
                            [stmt |-> unprefixed[i].name, arg |-> unprefixed[i].content,
                             attr |-> TRUE]]]_vars
    /\ [](\A n \in 1..Len(nodes) :
            nodes[n]["kw"] = YANG_CUSTOM =>
                \A i, j \in 1..Len(nodes[n]["child"]) :
                    (i < j /\ Statements(nodes, n)[j].attr) => Statements(nodes, n)[i].attr)

\* the extension instance e:a with three attributes, one of them prefixed, has
\* been read in the second if-feature of a container, and a child element of
\* it after that
C24_Witness ==
    /\ pc = "parsing"
    /\ Len(stack) = 4
    /\ stack[3].kw = "if-feature"
    /\ Top.kw = YANG_CUSTOM
    /\ nodes[Top.node]["name"] = "e:a"
    /\ nodes[Top.node]["insubstmt_index"] = 1
    /\ Len(Statements(nodes, Top.node)) = 3
    /\ Statements(nodes, Top.node)[3] = [stmt |-> "b", arg |-> <<"t">>, attr |-> FALSE]

\* C25: inside an extension instance the walker records every element: its
\* name, its text as its argument and, in the order of the source, its child
\* elements as its children, and the walk of an element ends with its own
\* closing tag, whether or not the element has attributes and at every depth.
C25_GenericWalker ==
    [][(pc = "parsing" /\ Top.kw \in {YANG_CUSTOM, "generic"}) =>
          /\ pc' = "parsing"
          /\ ret' = LY_SUCCESS
          /\ consumed' = consumed => stack' = SubSeq(stack, 1, Len(stack) - 1)
          /\ consumed' = consumed + 1 =>
                LET g == Len(nodes) + 1
                IN  /\ nodes'[g]["stmt"] = tok'.name
                    /\ tok'.content = "text" =>
                          /\ nodes'[g]["arg"] = tok'.text
                          /\ nodes'[Top.node]["child"]
                                 = Append(nodes[Top.node]["child"], g)
                    /\ tok'.content = "elems" =>
                          /\ Len(stack') = Len(stack) + 1
                          /\ stack'[Len(stack')].node = g]_vars

\* the flag of a type set for a child
FlagOf(kw) ==
    CASE kw = "range" -> "LYS_SET_RANGE"
      [] kw = "length" -> "LYS_SET_LENGTH"
      [] kw = "pattern" -> "LYS_SET_PATTERN"
      [] kw = "enum" -> "LYS_SET_ENUM"
      [] kw = "bit" -> "LYS_SET_BIT"
      [] kw = "type" -> "LYS_SET_TYPE"
      [] kw = "fraction-digits" -> "LYS_SET_FRDIGITS"
      [] kw = "base" -> "LYS_SET_BASE"
      [] OTHER -> "none"

\* the types whose element is still open
OpenTypes == {stack[i].node : i \in {j \in 1..Len(stack) : stack[j].kw = "type"}}

C27_VersionDeclared ==
    [][(/\ pc = "parsing"
        /\ consumed' = consumed + 1
        /\ pc' # "done"
        /\ Top.kw \notin {YANG_CUSTOM, "generic"}
        /\ YIN_SUBELEM_VER2 \in FlagsOf(Top, stack'[Len(stack)].kwv)) =>
          /\ Count(RootChildren, "yang-version") = 1
          /\ mod_version # LYS_VERSION_UNDEF
          /\ mod_version = lmod["mod->version"]]_vars

\* an anydata of the module has passed the version check after yang-version
\* 1.1 was read
C27_Witness ==
    /\ pc = "parsing"
    /\ ChildRead
    /\ Top.kw = "module"
    /\ Top.kwv = "anydata"
    /\ RootChildren[1] = "yang-version"
    /\ mod_version = LYS_VERSION_1_1

\* C28: under the module an extension instance is a statement of the body:
\* a header, linkage, meta or revision child read after an extension
\* instance of the module fails the parse with OrderingViolation.
C28_ExtensionIsBody ==
    (/\ ChildRead
     /\ Top.kw = "module"
     /\ Top.kwv \in {"namespace", "prefix", "yang-version", "include", "import",
                      "organization", "contact", "description", "reference", "revision"}
     /\ \E i \in 1..(Len(Top.children) - 1) : Top.children[i] = YANG_CUSTOM) =>
        /\ pc = "done"
        /\ ret = LY_EVALID
        /\ LastCode = "LY_VCODE_INORDER_YIN"
        /\ log[Len(log)].arg = Top.kwv

\* a namespace read right after an extension instance that followed the
\* yang-version is refused
C28_Witness ==
    /\ ChildRead
    /\ Top.kw = "module"
    /\ Top.children = <<"yang-version", YANG_CUSTOM, "namespace">>
    /\ LastCode = "LY_VCODE_INORDER_YIN"

TableKinds(frame) == {frame.subelems[j].type : j \in 1..Len(frame.subelems)}

====
